---------------------------- MODULE Spec2Model ----------------------------
(***************************************************************************)
(* A model of the HTTP server of src/src/http_server: route registration   *)
(* (Server::route, Server::add_middleware), the per-connection task of     *)
(* Server::start (reader loop, parse_request, route scan, middleware chain,*)
(* handler, return_response) and the Response object.                      *)
(*                                                                         *)
(* Strings are sequences of one-character strings, so that the string      *)
(* operations of the code (replace, matches, regular expressions) are      *)
(* computed character by character.                                        *)
(***************************************************************************)
EXTENDS Integers, Sequences, FiniteSets, TLC

(***************************************************************************)
(* Bounds of the model.                                                    *)
(***************************************************************************)
MaxRoutes == 2
MaxMiddlewares == 2

(***************************************************************************)
(* Program constants.                                                      *)
(***************************************************************************)
ONE_KB == 1024
ONE_MB == 1048576
ChunkSize == ONE_KB * 8

(***************************************************************************)
(* Character classes of the regex crate, restricted to ASCII.              *)
(***************************************************************************)
WordChars ==
    {"a","b","c","d","e","f","g","h","i","j","k","l","m","n","o","p","q",
     "r","s","t","u","v","w","x","y","z","0","1","2","3","4","5","6","7",
     "8","9","_"}

IsWord(c) == c \in WordChars

(***************************************************************************)
(* str helpers.                                                            *)
(***************************************************************************)
Drop(s, n) == SubSeq(s, n + 1, Len(s))

Take(s, n) == SubSeq(s, 1, n)

StartsWith(s, p) == Len(p) <= Len(s) /\ Take(s, Len(p)) = p

\* str::replace(from, to): every non-overlapping occurrence, left to right.
RECURSIVE Replace(_, _, _)
Replace(s, from, to) ==
    IF s = <<>> THEN <<>>
    ELSE IF StartsWith(s, from) THEN to \o Replace(Drop(s, Len(from)), from, to)
    ELSE <<Head(s)>> \o Replace(Tail(s), from, to)

\* str::matches(pat).count(): the non-overlapping occurrences, left to right.
RECURSIVE CountMatches(_, _)
CountMatches(s, pat) ==
    IF s = <<>> THEN 0
    ELSE IF StartsWith(s, pat) THEN 1 + CountMatches(Drop(s, Len(pat)), pat)
    ELSE CountMatches(Tail(s), pat)

\* The length of the longest prefix of s made of word characters (\w+ is greedy).
RECURSIVE WordRun(_)
WordRun(s) ==
    IF s = <<>> \/ ~IsWord(Head(s)) THEN 0 ELSE 1 + WordRun(Tail(s))

\* The same for [\w-]+.
RECURSIVE NameRun(_)
NameRun(s) ==
    IF s = <<>> \/ ~(IsWord(Head(s)) \/ Head(s) = "-") THEN 0
    ELSE 1 + NameRun(Tail(s))

(***************************************************************************)
(* util.rs                                                                 *)
(***************************************************************************)
\* A normalise_path that appends "/" whatever the path ends with.
normalise_path_AlwaysAppend(path) == path \o <<"/">>

\* A normalise_path that leaves the path as it is.
normalise_path_Unchanged(path) == path

\* normalise_path: append "/" unless the path already ends with one.
normalise_path(path) ==
    IF Len(path) > 0 /\ path[Len(path)] = "/" THEN path ELSE path \o <<"/">>

\* A glob_to_regex whose single "*" is compiled like "**".
glob_to_regex_AnyStar(glob) ==
    LET r1 == Replace(glob, <<".">>, <<"\\", ".">>)
        r2 == Replace(r1, <<"*">>, <<".", "+">>)
    IN  <<"^">> \o r2 \o <<"$">>

\* glob_to_regex: four replacements in order, then the anchors.
glob_to_regex(glob) ==
    LET r1 == Replace(glob, <<".">>, <<"\\", ".">>)
        r2 == Replace(r1, <<"*", "*">>, <<".", "+">>)
        r3 == Replace(r2, <<"/", "*", "/">>, <<"/", "[", "^", "/", "]", "+", "/">>)
        r4 == Replace(r3, <<"*">>, <<"[", "^", "/", "]", "+">>)
    IN  <<"^">> \o r4 \o <<"$">>

\* The position after the n-th repetition of [^/]*/ from the start of s, or 0
\* when s has fewer than n slashes.
RECURSIVE SkipSegments(_, _, _)
SkipSegments(s, pos, n) ==
    IF n = 0 THEN pos
    ELSE IF pos > Len(s) THEN 0
    ELSE IF s[pos] = "/" THEN SkipSegments(s, pos + 1, n - 1)
    ELSE SkipSegments(s, pos + 1, n)

None == [some |-> FALSE, val |-> <<>>]

Some(v) == [some |-> TRUE, val |-> v]

\* An extract_nth_segment_from_url that skips one segment too many.
extract_nth_segment_from_url_OffByOne(url_path, n) ==
    LET pos == SkipSegments(url_path, 1, n + 1)
        run == IF pos = 0 THEN 0 ELSE WordRun(Drop(url_path, pos - 1))
    IN  IF run = 0 THEN None ELSE Some(SubSeq(url_path, pos, pos + run - 1))

\* extract_nth_segment_from_url: ^(?:[^/]*/){n}(\w+), capture group 1.
extract_nth_segment_from_url(url_path, n) ==
    LET pos == SkipSegments(url_path, 1, n)
        run == IF pos = 0 THEN 0 ELSE WordRun(Drop(url_path, pos - 1))
    IN  IF run = 0 THEN None ELSE Some(SubSeq(url_path, pos, pos + run - 1))


(***************************************************************************)
(* The regex crate, for the patterns glob_to_regex produces: the anchors,  *)
(* an escaped character, .+ and [^/]+ , and literal characters.  The       *)
(* registered patterns hold no regex metacharacter besides "." and "*".    *)
(***************************************************************************)
SegPlus == <<"[", "^", "/", "]", "+">>

AnyPlus == <<".", "+">>

RECURSIVE RegexTokens(_)
RegexTokens(p) ==
    IF p = <<>> THEN <<>>
    ELSE IF Head(p) = "\\" /\ Len(p) >= 2
         THEN <<[t |-> "lit", c |-> p[2]]>> \o RegexTokens(Drop(p, 2))
    ELSE IF StartsWith(p, SegPlus)
         THEN <<[t |-> "seg", c |-> "/"]>> \o RegexTokens(Drop(p, 5))
    ELSE IF StartsWith(p, AnyPlus)
         THEN <<[t |-> "any", c |-> "\n"]>> \o RegexTokens(Drop(p, 2))
    ELSE IF Head(p) = "^" THEN <<[t |-> "bol", c |-> ""]>> \o RegexTokens(Tail(p))
    ELSE IF Head(p) = "$" THEN <<[t |-> "eol", c |-> ""]>> \o RegexTokens(Tail(p))
    ELSE <<[t |-> "lit", c |-> Head(p)]>> \o RegexTokens(Tail(p))

\* Whether the tokens match s from position j on (backtracking over the
\* lengths of the repetitions; a match need not reach the end of s unless
\* the "eol" anchor asks for it).
RECURSIVE MatchFrom(_, _, _)
MatchFrom(toks, s, j) ==
    IF toks = <<>> THEN TRUE
    ELSE LET t == Head(toks)
             r == Tail(toks)
         IN  CASE t.t = "bol" -> j = 1 /\ MatchFrom(r, s, j)
               [] t.t = "eol" -> j = Len(s) + 1 /\ MatchFrom(r, s, j)
               [] t.t = "lit" -> j <= Len(s) /\ s[j] = t.c /\ MatchFrom(r, s, j + 1)
               [] OTHER ->
                    \* "seg" is [^/]+ and "any" is .+ (every character but \n)
                    \E k \in 1..(Len(s) - j + 1) :
                        /\ \A i \in j..(j + k - 1) : s[i] # t.c
                        /\ MatchFrom(r, s, j + k)

\* Regex::is_match: a match starting anywhere in the text.
is_match(pattern, text) ==
    LET toks == RegexTokens(pattern)
    IN  \E start \in 1..(Len(text) + 1) : MatchFrom(toks, text, start)

(***************************************************************************)
(* Server::route, the compilation of the pattern.                          *)
(***************************************************************************)
\* URI_PARAM_REGEX.find_iter: the matches of :[\w-]+ from position i on, each
\* with the number of "/" before its start.
RECURSIVE FindParams(_, _)
FindParams(s, i) ==
    IF i > Len(s) THEN <<>>
    ELSE IF s[i] = ":" /\ NameRun(Drop(s, i)) > 0
         THEN LET n == NameRun(Drop(s, i))
              IN  <<[name |-> SubSeq(s, i + 1, i + n),
                     num_slashes_before |-> CountMatches(Take(s, i - 1), <<"/">>)]>>
                  \o FindParams(s, i + n + 1)
    ELSE FindParams(s, i + 1)

\* URI_PARAM_REGEX.replace_all(norm_path, "*")
RECURSIVE ReplaceParams(_)
ReplaceParams(s) ==
    IF s = <<>> THEN <<>>
    ELSE IF Head(s) = ":" /\ NameRun(Tail(s)) > 0
         THEN <<"*">> \o ReplaceParams(Drop(s, NameRun(Tail(s)) + 1))
    ELSE <<Head(s)>> \o ReplaceParams(Tail(s))

\* The Route a registration stores: the compiled pattern and the parameters.
CompileRoute(method, path) ==
    LET norm_path == normalise_path(path)
    IN  [method |-> method,
         path   |-> glob_to_regex(ReplaceParams(norm_path)),
         params |-> FindParams(norm_path, 1)]

(***************************************************************************)
(* constants.rs: HttpMethod.  A method is a record: the variant, and the   *)
(* raw verb that the OTHER variant carries.                                *)
(***************************************************************************)
KnownVerbs ==
    {"GET", "POST", "PUT", "DELETE", "HEAD", "OPTIONS", "CONNECT", "TRACE", "PATCH"}

Method(tag) == [tag |-> tag, raw |-> ""]

Other(raw) == [tag |-> "OTHER", raw |-> raw]

\* HttpMethod::from_str
from_str(s) == IF s \in KnownVerbs THEN Method(s) ELSE Other(s)

\* HttpMethod::iter(): strum's EnumIter yields every unit variant, and OTHER
\* with the default (empty) string.
IterMethods == {Method(t) : t \in KnownVerbs} \cup {Other("")}

(***************************************************************************)
(* Maps (HashMap): functions; insert replaces the value of a present key.  *)
(***************************************************************************)
EmptyMap == <<>>

MapInsert(m, k, v) == [x \in (DOMAIN m) \cup {k} |-> IF x = k THEN v ELSE m[x]]

(***************************************************************************)
(* Server::route, the ordering of a bucket.                                *)
(***************************************************************************)
\* a_true_len of the comparator, a usize.  The subtraction goes below zero
\* for a pattern with more ".+" tokens than other characters allow for; the
\* result then wraps around (a build without overflow checks).  A usize is
\* written [hi, lo]: lo itself when hi = 0, and 2^64 + lo, with lo < 0,
\* when the subtraction wrapped (hi = 1).
TrueLen(path) ==
    LET d == Len(path) - CountMatches(path, SegPlus) * 5 - CountMatches(path, AnyPlus) * 3
    IN  [hi |-> IF d < 0 THEN 1 ELSE 0, lo |-> d]

NumSlashes(path) == CountMatches(path, <<"/">>)

\* The closure given to sort_by: "Less" when a sorts before b.
Cmp(x, y) == IF x < y THEN "Less" ELSE IF x = y THEN "Equal" ELSE "Greater"

Reverse(o) == IF o = "Less" THEN "Greater" ELSE IF o = "Greater" THEN "Less" ELSE o

\* usize::cmp on two values written [hi, lo]
CmpUsize(x, y) == IF x.hi # y.hi THEN Cmp(x.hi, y.hi) ELSE Cmp(x.lo, y.lo)

\* A comparator that orders the slash counts ascending.
CompareRoutes_SlashesAscending(a, b) ==
    LET comparison == Cmp(NumSlashes(a.route.path), NumSlashes(b.route.path))
    IN  IF comparison = "Equal"
        THEN LET comparison2 == CmpUsize(TrueLen(a.route.path), TrueLen(b.route.path))
             IN  IF comparison2 = "Equal"
                 THEN Reverse(Cmp(Len(a.route.params), Len(b.route.params)))
                 ELSE comparison2
        ELSE comparison

CompareRoutes(a, b) ==
    LET comparison == Reverse(Cmp(NumSlashes(a.route.path), NumSlashes(b.route.path)))
    IN  IF comparison = "Equal"
        THEN LET comparison2 == CmpUsize(TrueLen(a.route.path), TrueLen(b.route.path))
             IN  IF comparison2 = "Equal"
                 THEN Reverse(Cmp(Len(a.route.params), Len(b.route.params)))
                 ELSE comparison2
        ELSE comparison

\* An insertion that puts x before the elements it ties with.
InsertStable_BeforeTies(sorted, x) ==
    LET n == Cardinality({i \in 1..Len(sorted) : CompareRoutes(sorted[i], x) = "Less"})
    IN  Take(sorted, n) \o <<x>> \o Drop(sorted, n)

\* x put into the sorted sequence after every element it does not sort before.
RECURSIVE InsertStable(_, _)
InsertStable(sorted, x) ==
    IF sorted = <<>> THEN <<x>>
    ELSE IF CompareRoutes(x, Head(sorted)) = "Less" THEN <<x>> \o sorted
    ELSE <<Head(sorted)>> \o InsertStable(Tail(sorted), x)

\* slice::sort_by: a stable sort of the whole bucket.
RECURSIVE SortBucket(_)
SortBucket(v) ==
    IF v = <<>> THEN <<>>
    ELSE InsertStable(SortBucket(Take(v, Len(v) - 1)), v[Len(v)])

(***************************************************************************)
(* Bytes on the wire.  A run of bytes is an item [k, v, s, n]: its         *)
(* syntactic kind, its text (v, or the characters s of a request target)   *)
(* and its length n in bytes.  "nul" is a run of zero bytes, "fill" a run  *)
(* of bytes that are valid in a header value.                              *)
(***************************************************************************)
Item(k, v, s, n) == [k |-> k, v |-> v, s |-> s, n |-> n]

VerbLen(v) ==
    CASE v \in {"GET", "PUT"} -> 3
      [] v \in {"POST", "HEAD"} -> 4
      [] v \in {"PURGE", "TRACE", "PATCH"} -> 5
      [] v = "DELETE" -> 6
      [] OTHER -> 7

MethodItem(v) == Item("method", v, <<>>, VerbLen(v))

SP == Item("sp", " ", <<>>, 1)

TargetItem(s) == Item("target", "", s, Len(s))

VersionItem == Item("version", "1", <<>>, 8)

CRLF == Item("crlf", "", <<>>, 2)

\* "Host: "
HostName == Item("hname", "Host", <<>>, 6)

HostValue == Item("hval", "x", <<>>, 1)

Fill(n) == Item("fill", "x", <<>>, n)

Nul(n) == Item("nul", "", <<>>, n)

\* The number of bytes of a sequence of items (summed by halves).
RECURSIVE Bytes(_)
Bytes(items) ==
    IF items = <<>> THEN 0
    ELSE IF Len(items) = 1 THEN items[1].n
    ELSE LET h == Len(items) \div 2
         IN  Bytes(Take(items, h)) + Bytes(Drop(items, h))

\* Bytes appended to bytes: adjacent runs of zero bytes, and of header-value
\* bytes, are one run.
AppendRun(all, it) ==
    IF all # <<>> /\ it.k \in {"fill", "nul"} /\ all[Len(all)].k = it.k
    THEN [all EXCEPT ![Len(all)].n = @ + it.n]
    ELSE Append(all, it)

RECURSIVE Concat(_, _)
Concat(all, data) ==
    IF data = <<>> THEN all ELSE Concat(AppendRun(all, Head(data)), Tail(data))

(***************************************************************************)
(* httparse::Request::parse, at the level of items: the request line, then *)
(* header lines up to the empty line.  A byte that is not valid where it   *)
(* stands (a zero byte anywhere in the head) is an error; a head that is   *)
(* valid as far as it goes is Partial.                                     *)
(***************************************************************************)
MaxHeaders == 64

RequestLineKinds == <<"method", "sp", "target", "sp", "version", "crlf">>

ParseResult(status, next, hdrs) ==
    [status |-> status, first |-> 0, next |-> next, hdrs |-> hdrs]

RECURSIVE ParseHeaderLines(_, _, _)
RECURSIVE ParseHeaderValue(_, _, _, _, _)
ParseHeaderLines(buf, i, hdrs) ==
    IF i > Len(buf) THEN ParseResult("Partial", i, hdrs)
    ELSE IF buf[i].k = "crlf" THEN ParseResult("Complete", i + 1, hdrs)
    ELSE IF buf[i].k = "hname" /\ Len(hdrs) < MaxHeaders
         THEN ParseHeaderValue(buf, i + 1, buf[i].v, <<>>, hdrs)
    ELSE ParseResult("Error", i, hdrs)

ParseHeaderValue(buf, j, name, val, hdrs) ==
    IF j > Len(buf) THEN ParseResult("Partial", j, hdrs)
    ELSE IF buf[j].k \in {"hval", "fill"}
         THEN ParseHeaderValue(buf, j + 1, name, Append(val, <<buf[j].v, buf[j].n>>), hdrs)
    ELSE IF buf[j].k = "crlf"
         THEN ParseHeaderLines(buf, j + 1, Append(hdrs, [name |-> name, value |-> val]))
    ELSE ParseResult("Error", j, hdrs)

\* Empty lines before the request line are skipped.
RECURSIVE SkipEmptyLines(_, _)
SkipEmptyLines(buf, i) ==
    IF i <= Len(buf) /\ buf[i].k = "crlf" THEN SkipEmptyLines(buf, i + 1) ELSE i

httparse(buf) ==
    LET i     == SkipEmptyLines(buf, 1)
        avail == Len(buf) - i + 1
        seen  == IF avail < 6 THEN avail ELSE 6
    IN  IF \E j \in 1..seen : buf[i + j - 1].k # RequestLineKinds[j]
        THEN ParseResult("Error", i, <<>>)
        ELSE IF avail < 6 THEN ParseResult("Partial", i, <<>>)
        ELSE [ParseHeaderLines(buf, i + 6, <<>>) EXCEPT !.first = i]

(***************************************************************************)
(* The url crate, for "https://a.b" followed by an origin-form target that *)
(* holds no dot segment, no percent escape, no backslash and no fragment:  *)
(* the path is the target up to the first "?", the query what follows it.  *)
(***************************************************************************)
RECURSIVE IndexOf(_, _, _)
IndexOf(s, c, i) ==
    IF i > Len(s) THEN 0 ELSE IF s[i] = c THEN i ELSE IndexOf(s, c, i + 1)

UrlPath(target) ==
    LET q == IndexOf(target, "?", 1)
    IN  IF q = 0 THEN target ELSE Take(target, q - 1)

UrlQuery(target) ==
    LET q == IndexOf(target, "?", 1)
    IN  IF q = 0 THEN <<>> ELSE Drop(target, q)

\* query_pairs().collect(): name=value pieces between "&"; a later pair
\* replaces an earlier one of the same name.
RECURSIVE QueryPairs(_, _)
QueryPairs(q, m) ==
    IF q = <<>> THEN m
    ELSE LET amp   == IndexOf(q, "&", 1)
             piece == IF amp = 0 THEN q ELSE Take(q, amp - 1)
             rest  == IF amp = 0 THEN <<>> ELSE Drop(q, amp)
             eq    == IndexOf(piece, "=", 1)
             name  == IF eq = 0 THEN piece ELSE Take(piece, eq - 1)
             value == IF eq = 0 THEN <<>> ELSE Drop(piece, eq)
         IN  QueryPairs(rest, IF piece = <<>> THEN m ELSE MapInsert(m, name, value))

\* Whether Url::parse("https://a.b" + url_str) fails.  A target that starts
\* with ":" goes on the authority as its port: what stands between the ":"
\* and the next "/" or "?" (or the end) has to be empty or a decimal number
\* of at most 65535 (a u16).
Digits == <<"0", "1", "2", "3", "4", "5", "6", "7", "8", "9">>

DigitValue(c) == (CHOOSE i \in 1..10 : Digits[i] = c) - 1

RECURSIVE DecimalValue(_)
DecimalValue(s) ==
    IF s = <<>> THEN 0
    ELSE 10 * DecimalValue(Take(s, Len(s) - 1)) + DigitValue(s[Len(s)])

PortText(url_str) ==
    LET sl  == IndexOf(url_str, "/", 1)
        q   == IndexOf(url_str, "?", 1)
        end == IF sl = 0 /\ q = 0 THEN Len(url_str) + 1
               ELSE IF sl = 0 THEN q
               ELSE IF q = 0 THEN sl
               ELSE IF sl < q THEN sl ELSE q
    IN  SubSeq(url_str, 2, end - 1)

UrlParseFails(url_str) ==
    /\ url_str # <<>>
    /\ Head(url_str) = ":"
    /\ LET port == PortText(url_str)
       IN  \/ \E i \in 1..Len(port) : \A d \in 1..10 : Digits[d] # port[i]
           \/ Len(port) > 5
           \/ DecimalValue(port) > 65535

RECURSIVE HeadersMap(_, _)
HeadersMap(hdrs, m) ==
    IF hdrs = <<>> THEN m
    ELSE HeadersMap(Tail(hdrs), MapInsert(m, Head(hdrs).name, Head(hdrs).value))

\* Server::parse_request: Ok(Request) or Err; or a panic, in expect(), when
\* the url crate does not accept the target.
parse_request(buffer) ==
    LET res == httparse(buffer)
    IN  IF res.status # "Complete"
        THEN [ok |-> FALSE, err |-> res.status]
        ELSE IF UrlParseFails(buffer[res.first + 2].s)
        THEN [ok |-> FALSE, err |-> "panic"]
        ELSE LET first   == res.first
                 url_str == buffer[first + 2].s
                 amt     == Bytes(Take(buffer, res.next - 1))
             IN  [ok      |-> TRUE,
                  err     |-> "",
                  method  |-> from_str(buffer[first].v),
                  path    |-> normalise_path(UrlPath(url_str)),
                  version |-> buffer[first + 4].v,
                  headers |-> HeadersMap(res.hdrs, EmptyMap),
                  body    |-> IF amt < Bytes(buffer)
                              THEN Some(Drop(buffer, res.next - 1))
                              ELSE None,
                  params  |-> EmptyMap,
                  query   |-> QueryPairs(UrlQuery(url_str), EmptyMap)]

(***************************************************************************)
(* constants.rs: get_status_text                                           *)
(***************************************************************************)
get_status_text(code) ==
    CASE code = 100 -> "Continue"
      [] code = 101 -> "Switching Protocols"
      [] code = 102 -> "Processing"
      [] code = 200 -> "OK"
      [] code = 201 -> "Created"
      [] code = 202 -> "Accepted"
      [] code = 204 -> "No Content"
      [] code = 301 -> "Moved Permanently"
      [] code = 302 -> "Found"
      [] code = 304 -> "Not Modified"
      [] code = 400 -> "Bad Request"
      [] code = 401 -> "Unauthorized"
      [] code = 403 -> "Forbidden"
      [] code = 404 -> "Not Found"
      [] code = 405 -> "Method Not Allowed"
      [] code = 500 -> "Internal Server Error"
      [] code = 501 -> "Not Implemented"
      [] code = 502 -> "Bad Gateway"
      [] code = 503 -> "Service Unavailable"
      [] OTHER -> "Unknown Status"

(***************************************************************************)
(* response.rs: Response                                                   *)
(***************************************************************************)
\* Response::get_default_headers; the date is the time of the call.
get_default_headers(now) ==
    MapInsert(MapInsert(EmptyMap, "content-type", "application/json"), "Date", now)

\* The order in which a HashMap yields its keys is not specified: it follows
\* the hashes of the keys under the map's RandomState.  hash_order is that
\* order over every header name the program uses; a map yields the names it
\* holds in this order.
DefaultHashOrder ==
    <<"content-type", "Date", "x-served-by", "access-control-allow-origin",
      "access-control-allow-credentials", "access-control-allow-methods",
      "access-control-allow-headers">>

\* Response::new
ResponseNew(now) ==
    [headers         |-> get_default_headers(now),
     hash_order      |-> DefaultHashOrder,
     body            |-> None,
     status_code     |-> 200,
     status_text     |-> get_status_text(200),
     _should_respond |-> FALSE]

\* str::to_lowercase, on the header names the program uses.
to_lowercase(name) ==
    CASE name = "X-Served-By" -> "x-served-by"
      [] name = "Access-Control-Allow-Origin" -> "access-control-allow-origin"
      [] name = "Access-Control-Allow-Credentials" -> "access-control-allow-credentials"
      [] name = "Access-Control-Allow-Methods" -> "access-control-allow-methods"
      [] name = "Access-Control-Allow-Headers" -> "access-control-allow-headers"
      [] name = "Content-Type" -> "content-type"
      [] name = "Date" -> "date"
      [] OTHER -> name

\* Response::add_header
add_header(r, key, value) ==
    [r EXCEPT !.headers = MapInsert(@, to_lowercase(key), value)]

\* A set_status_code that leaves the text as it was.
set_status_code_CodeOnly(r, code) == [r EXCEPT !.status_code = code]

set_status_code(r, code) ==
    [r EXCEPT !.status_code = code, !.status_text = get_status_text(code)]

set_body_str(r, data) == [r EXCEPT !.body = Some(data)]

\* Response::set_body and Response::set_body_string: the same bytes, given as
\* a Vec<u8> and as a String.
set_body(r, data) == [r EXCEPT !.body = Some(data)]

set_body_string(r, data) == [r EXCEPT !.body = Some(data)]

\* Response::send
send(r) == [r EXCEPT !._should_respond = TRUE]

\* A should_respond that never reports the flag.
should_respond_Never(r) == FALSE

should_respond(r) == r._should_respond

(***************************************************************************)
(* Middlewares and handlers are functions over the shared Request and      *)
(* Response.  The model registers these bodies:                            *)
(*   "pass"    a middleware that changes nothing                           *)
(*   "deny"    a middleware that sets status 403 and calls send()          *)
(*   "hello"   a handler that sets the body and calls send()               *)
(*   "silent"  a handler that sets status 404 and returns without send()   *)
(*   "tagged"  a handler that adds a header, sets the body and calls send()*)
(*   "cors_dev", "cors_prod"  the CORS middleware of middlewares/cors.rs    *)
(***************************************************************************)
MiddlewareBodies == {"pass", "deny"}

\* middlewares/cors.rs: cors_middleware, in a process whose ENVIRONMENT and
\* ALLOWED_ORIGINS variables have the given values (allowed_origins is the
\* set of the pieces of ALLOWED_ORIGINS between ", ").  The value of the
\* Access-Control-Allow-Methods header lists the methods HttpMethod::iter()
\* yields, in the order of their declaration.
default_origin == "https://www.kblue-dev.ido"

methods_to_allow ==
    <<"GET", "POST", "PUT", "DELETE", "HEAD", "OPTIONS", "CONNECT", "TRACE", "PATCH",
      "OTHER">>

cors_middleware(req, res, environment, allowed_origins) ==
    LET origin == IF "origin" \in DOMAIN req.headers
                  THEN req.headers["origin"] ELSE default_origin
        r1 == IF environment = "dev" \/ origin \in allowed_origins
              THEN add_header(res, "Access-Control-Allow-Origin", origin)
              ELSE res
        r2 == add_header(r1, "Access-Control-Allow-Credentials", "true")
        r3 == add_header(r2, "Access-Control-Allow-Methods", methods_to_allow)
        r4 == add_header(r3, "Access-Control-Allow-Headers", "Authorization, Content-Type")
    IN  IF req.method # Method("OPTIONS") THEN r2 ELSE send(r4)

\* The CORS middleware with ENVIRONMENT "dev", and with ENVIRONMENT "prod"
\* and no allowed origin.
CorsBodies == {"cors_dev", "cors_prod"}

HandlerBodies == {"hello", "silent"}

RunBody(body, req, res) ==
    CASE body = "deny"   -> send(set_status_code(res, 403))
      [] body = "hello"  -> send(set_body_str(res, "Hello bossman"))
      [] body = "silent" -> set_status_code(res, 404)
      [] body = "cors_dev"  -> cors_middleware(req, res, "dev", {})
      [] body = "cors_prod" -> cors_middleware(req, res, "prod", {})
      [] body = "tagged" -> send(set_body_str(add_header(res, "X-Served-By", "h"), "{}"))
      [] OTHER           -> res

(***************************************************************************)
(* The state.  The server: the route table, the middleware list and where  *)
(* main() stands.  Each connection task: its position, what the peer still *)
(* sends, the accumulated buffer, the Request, the Response, the loop      *)
(* indices over the bucket and the middleware list, and what was written   *)
(* to the socket.  invoked, reads, parses, sent, received and last_read    *)
(* are history: the stages called so far, the number of reads and of calls *)
(* of parse_request, the bytes received so far and their number, and what  *)
(* the last read returned.  A bucket entry also remembers the pattern it   *)
(* was registered with.  request_lock and response_lock are the two        *)
(* Mutexes of the task: "free", or held by the "task" itself or by the     *)
(* "stage" (the middleware or handler) it is awaiting; pidx is the index   *)
(* of the loop over a route's parameters.  The actions that take a whole   *)
(* stage as one step leave the Mutexes free.                               *)
(***************************************************************************)
VARIABLES handlers, middlewares, phase, conns

vars == <<handlers, middlewares, phase, conns>>

Conns == {1}

NoRequest == [ok |-> FALSE, err |-> "none"]

IdleConn ==
    [pc              |-> "idle",
     stream          |-> <<>>,
     closes          |-> FALSE,
     all_stream_data |-> <<>>,
     request         |-> NoRequest,
     response        |-> ResponseNew(""),
     ridx            |-> 0,
     midx            |-> 0,
     pidx            |-> 0,
     request_lock    |-> "free",
     response_lock   |-> "free",
     written         |-> <<>>,
     invoked         |-> <<>>,
     reads           |-> 0,
     parses          |-> 0,
     sent            |-> <<>>,
     received        |-> 0,
     last_read       |-> 0]

\* Server::new: an empty bucket for every method HttpMethod::iter() yields.
Init ==
    /\ handlers = [m \in IterMethods |-> <<>>]
    /\ middlewares = <<>>
    /\ phase = "setup"
    /\ conns = [c \in Conns |-> IdleConn]

(***************************************************************************)
(* Registration.                                                           *)
(***************************************************************************)
RECURSIVE SumLen(_, _)
SumLen(h, ms) ==
    IF ms = {} THEN 0
    ELSE LET m == CHOOSE x \in ms : TRUE IN Len(h[m]) + SumLen(h, ms \ {m})

NumRoutes == SumLen(handlers, DOMAIN handlers)

\* The bucket after push and sort_by.
PushAndSort(bucket, entry) == SortBucket(Append(bucket, entry))

\* Whether sorting the bucket computes a true_len that goes below zero: the
\* comparator computes it for two routes with the same number of slashes.
\* A build with overflow checks panics there.
SortOverflows(bucket) ==
    \E i, j \in 1..Len(bucket) :
        /\ i # j
        /\ NumSlashes(bucket[i].route.path) = NumSlashes(bucket[j].route.path)
        /\ TrueLen(bucket[i].route.path).hi = 1

\* Overflow checks are on in a debug build and off in a release build.
Builds == {"debug", "release"}

\* The RouteAndHandler a registration pushes.  A handler is identified by the
\* number of its registration.
RouteEntry(method, path, body, id) ==
    [route   |-> CompileRoute(method, path),
     handler |-> [id |-> id, body |-> body],
     pattern |-> path]

\* Server::route.  get_mut(&method).unwrap() panics when the method has no
\* bucket, and so does the comparator of sort_by when a true_len goes below
\* zero in a build with overflow checks.
Route(method, path, body) ==
    /\ phase = "setup"
    /\ NumRoutes < MaxRoutes
    /\ \E build \in Builds :
           LET entry == RouteEntry(method, path, body, NumRoutes + 1)
           IN  IF method \notin DOMAIN handlers
               THEN /\ phase' = "panicked"
                    /\ handlers' = handlers
               ELSE IF build = "debug" /\ SortOverflows(Append(handlers[method], entry))
               THEN /\ phase' = "panicked"
                    /\ handlers' = handlers
               ELSE /\ handlers' = [handlers EXCEPT ![method] = PushAndSort(@, entry)]
                    /\ phase' = phase
    /\ UNCHANGED <<middlewares, conns>>

\* Server::add_middleware
AddMiddleware(body) ==
    /\ phase = "setup"
    /\ Len(middlewares) < MaxMiddlewares
    /\ middlewares' = Append(middlewares, body)
    /\ UNCHANGED <<handlers, phase, conns>>

\* Server::start: the listener is bound; from here on the tables are only read.
Start ==
    /\ phase = "setup"
    /\ phase' = "serving"
    /\ UNCHANGED <<handlers, middlewares, conns>>

(***************************************************************************)
(* The connection task: the reader loop.                                   *)
(***************************************************************************)
\* An extend that appends the bytes the read returned and no more.
ExtendBuffer_BytesRead(all, data) == Concat(all, data)

\* all_stream_data.extend(&buffer): the whole chunk, of which the first
\* Bytes(data) bytes were read and the rest is still zero.
ExtendBuffer(all, data) ==
    IF Bytes(data) < ChunkSize
    THEN Concat(Concat(all, data), <<Nul(ChunkSize - Bytes(data))>>)
    ELSE Concat(all, data)

\* all_stream_data.len() > ONE_MB
TooBig(all) == Bytes(all) > ONE_MB

\* An accept whose task takes over the Response of a task already running.
AcceptConn_SharedResponse(c, script) ==
    /\ phase = "serving"
    /\ conns[c].pc = "idle"
    /\ conns' = [conns EXCEPT ![c] =
                    [@ EXCEPT !.pc = "read",
                              !.stream = script.chunks,
                              !.closes = script.closes,
                              !.response =
                                  IF \E d \in DOMAIN conns : conns[d].pc # "idle"
                                  THEN conns[CHOOSE d \in DOMAIN conns :
                                                 conns[d].pc # "idle"].response
                                  ELSE ResponseNew("accept-time")]]
    /\ UNCHANGED <<handlers, middlewares, phase>>

\* listener.accept() and tokio::spawn: the task starts with a new Response.
\* script is what the peer will send: the bytes each read returns, and
\* whether the peer closes its side afterwards.
AcceptConn(c, script) ==
    /\ phase = "serving"
    /\ conns[c].pc = "idle"
    /\ conns' = [conns EXCEPT ![c] =
                    [@ EXCEPT !.pc = "read",
                              !.stream = script.chunks,
                              !.closes = script.closes,
                              !.response = ResponseNew("accept-time")]]
    /\ UNCHANGED <<handlers, middlewares, phase>>

\* The same, with the order the new Response's header map will be iterated in.
AcceptConnHashed(c, script, order) ==
    /\ phase = "serving"
    /\ conns[c].pc = "idle"
    /\ conns' = [conns EXCEPT ![c] =
                    [@ EXCEPT !.pc = "read",
                              !.stream = script.chunks,
                              !.closes = script.closes,
                              !.response = [ResponseNew("accept-time")
                                                EXCEPT !.hash_order = order]]]
    /\ UNCHANGED <<handlers, middlewares, phase>>

\* A reader loop that takes a read of zero bytes like any other read.
Read_ZeroReadGoesOn(c) ==
    LET cn   == conns[c]
        data == IF cn.stream = <<>> THEN <<>> ELSE Head(cn.stream)
        all  == ExtendBuffer(cn.all_stream_data, data)
        req  == parse_request(all)
        base == [cn EXCEPT !.stream = IF cn.stream = <<>> THEN <<>> ELSE Tail(cn.stream),
                           !.all_stream_data = all,
                           !.reads = @ + 1,
                           !.sent = Concat(@, data),
                           !.received = @ + Bytes(data),
                           !.last_read = Bytes(data)]
    IN  /\ cn.pc = "read"
        /\ cn.stream # <<>> \/ cn.closes
        /\ conns' = [conns EXCEPT ![c] =
                IF TooBig(all) THEN [base EXCEPT !.pc = "aborted"]
                ELSE IF req.ok THEN [base EXCEPT !.pc = "dispatch",
                                                 !.parses = @ + 1,
                                                 !.request = req,
                                                 !.ridx = 1]
                ELSE IF req.err = "panic" THEN [base EXCEPT !.pc = "panicked",
                                                            !.parses = @ + 1]
                ELSE [base EXCEPT !.parses = @ + 1]]
        /\ UNCHANGED <<handlers, middlewares, phase>>

\* One iteration of the reader loop: the read, the two tests, the parse.  A
\* panic in parse_request ends the task.
Read(c) ==
    LET cn   == conns[c]
        data == IF cn.stream = <<>> THEN <<>> ELSE Head(cn.stream)
        all  == ExtendBuffer(cn.all_stream_data, data)
        req  == parse_request(all)
        base == [cn EXCEPT !.stream = IF cn.stream = <<>> THEN <<>> ELSE Tail(cn.stream),
                           !.all_stream_data = all,
                           !.reads = @ + 1,
                           !.sent = Concat(@, data),
                           !.received = @ + Bytes(data),
                           !.last_read = Bytes(data)]
    IN  /\ cn.pc = "read"
        /\ cn.stream # <<>> \/ cn.closes
        /\ conns' = [conns EXCEPT ![c] =
                IF Bytes(data) = 0 THEN [base EXCEPT !.pc = "aborted"]
                ELSE IF TooBig(all) THEN [base EXCEPT !.pc = "aborted"]
                ELSE IF req.ok THEN [base EXCEPT !.pc = "dispatch",
                                                 !.parses = @ + 1,
                                                 !.request = req,
                                                 !.ridx = 1]
                ELSE IF req.err = "panic" THEN [base EXCEPT !.pc = "panicked",
                                                            !.parses = @ + 1]
                ELSE [base EXCEPT !.parses = @ + 1]]
        /\ UNCHANGED <<handlers, middlewares, phase>>

(***************************************************************************)
(* The connection task: the route scan, the middleware chain, the handler. *)
(***************************************************************************)
\* A lookup that falls back on the GET bucket for a method without a bucket.
BucketOf_FallBackOnGet(method) ==
    IF method \in DOMAIN handlers THEN handlers[method] ELSE handlers[Method("GET")]

\* handlers.get(&request_method).unwrap_or(&Vec::new())
BucketOf(method) == IF method \in DOMAIN handlers THEN handlers[method] ELSE <<>>

\* A scan that takes the last matching route instead of the first.
FirstMatchFrom_Last(bucket, path, i) ==
    LET S == {j \in i..Len(bucket) : is_match(bucket[j].route.path, path)}
    IN  IF S = {} THEN 0 ELSE CHOOSE j \in S : \A k \in S : k <= j

\* A scan that stops after the first matching route.
FirstMatchFrom_Break(bucket, path, i) ==
    LET S == {j \in i..Len(bucket) : is_match(bucket[j].route.path, path)}
    IN  IF i > 1 \/ S = {} THEN 0 ELSE CHOOSE j \in S : \A k \in S : j <= k

\* The index of the first route from i on whose pattern matches, or 0: the
\* iterations of the for loop whose is_match is false do nothing.
RECURSIVE FirstMatchFrom(_, _, _)
FirstMatchFrom(bucket, path, i) ==
    IF i > Len(bucket) THEN 0
    ELSE IF is_match(bucket[i].route.path, path) THEN i
    ELSE FirstMatchFrom(bucket, path, i + 1)

\* The loop over handler.route.params: each value found is inserted.
RECURSIVE InsertParams(_, _, _)
InsertParams(params, route_params, path) ==
    IF route_params = <<>> THEN params
    ELSE LET param == Head(route_params)
             value == extract_nth_segment_from_url(path, param.num_slashes_before)
         IN  InsertParams(IF value.some THEN MapInsert(params, param.name, value.val)
                          ELSE params,
                          Tail(route_params), path)

\* Response::get_body_as_string
get_body_as_string(res) == IF res.body.some THEN res.body.val ELSE ""

\* The decimal digits of a number, as format!("{}") writes it.
RECURSIVE DecimalString(_)
DecimalString(n) ==
    LET digit == <<"0", "1", "2", "3", "4", "5", "6", "7", "8", "9">>[(n % 10) + 1]
    IN  IF n < 10 THEN <<digit>> ELSE Append(DecimalString(n \div 10), digit)

\* headers.iter(): the names the map holds, in the order of its hashes.
IterKeys(res) ==
    LET Held(name) == name \in DOMAIN res.headers
    IN  SelectSeq(res.hash_order, Held)

\* .map(|(key, value)| format!("{}: {}", key, value)).collect().join("\r\n")
RECURSIVE JoinHeaders(_, _)
JoinHeaders(res, keys) ==
    IF keys = <<>> THEN <<>>
    ELSE <<Head(keys), ": ", res.headers[Head(keys)]>>
         \o (IF Len(keys) > 1 THEN <<"\r\n">> ELSE <<>>)
         \o JoinHeaders(res, Tail(keys))

\* An empty string adds nothing to the text.
Str(x) == IF x = "" THEN <<>> ELSE <<x>>

\* A response text with one line break between the headers and the body.
response_string_OneBreak(res) ==
    <<"HTTP/1.1", " ">> \o DecimalString(res.status_code)
        \o <<" ", res.status_text, "\r\n">>
        \o JoinHeaders(res, IterKeys(res))
        \o <<"\r\n">>
        \o Str(get_body_as_string(res))

\* format!("HTTP/1.1 {} {}\r\n{}\r\n\r\n{}", ...): the pieces of the text written,
\* in order.
response_string(res) ==
    <<"HTTP/1.1", " ">> \o DecimalString(res.status_code)
        \o <<" ", res.status_text, "\r\n">>
        \o JoinHeaders(res, IterKeys(res))
        \o <<"\r\n", "\r\n">>
        \o Str(get_body_as_string(res))

\* A return_response that writes the default status whatever the Response holds.
return_response_DefaultStatus(res) ==
    [status_line     |-> <<"HTTP/1.1", 200, get_status_text(200)>>,
     headers         |-> res.headers,
     body            |-> get_body_as_string(res),
     response_string |-> response_string(res)]

\* Server::return_response: what is written to the socket: the text, and
\* beside it the status line, the headers and the body it was made from.
return_response(res) ==
    [status_line     |-> <<"HTTP/1.1", res.status_code, res.status_text>>,
     headers         |-> res.headers,
     body            |-> get_body_as_string(res),
     response_string |-> response_string(res)]

\* A task that does not look at the flag after a stage.
AfterStage_IgnoreFlag(cn, res, entry, pc, ridx, midx) ==
    [cn EXCEPT !.response = res,
               !.invoked = Append(@, entry),
               !.pc = pc,
               !.ridx = ridx,
               !.midx = midx]

\* A task that writes the response and goes on with the chain.
AfterStage_WriteAndGoOn(cn, res, entry, pc, ridx, midx) ==
    [cn EXCEPT !.response = res,
               !.invoked = Append(@, entry),
               !.written = IF should_respond(res)
                           THEN Append(@, return_response(res))
                           ELSE @,
               !.pc = pc,
               !.ridx = ridx,
               !.midx = midx]

\* What the task does once a middleware or the handler has returned: with
\* the flag set it writes the response and returns, otherwise it goes on at
\* the given position.
AfterStage(cn, res, entry, pc, ridx, midx) ==
    IF should_respond(res)
    THEN [cn EXCEPT !.response = res,
                    !.invoked = Append(@, entry),
                    !.written = Append(@, return_response(res)),
                    !.pc = "done"]
    ELSE [cn EXCEPT !.response = res,
                    !.invoked = Append(@, entry),
                    !.pc = pc,
                    !.ridx = ridx,
                    !.midx = midx]

\* The for loop over the bucket, up to the next matching route: its
\* parameters are inserted into the Request and the middleware loop starts.
\* With no route left the task returns Ok(()).
ScanRoutes(c) ==
    LET cn     == conns[c]
        bucket == BucketOf(cn.request.method)
        j      == FirstMatchFrom(bucket, cn.request.path, cn.ridx)
    IN  /\ cn.pc = "dispatch"
        /\ conns' = [conns EXCEPT ![c] =
                IF j = 0 THEN [cn EXCEPT !.pc = "done"]
                ELSE [cn EXCEPT !.pc = "chain",
                                !.ridx = j,
                                !.midx = 1,
                                !.request.params =
                                    InsertParams(@, bucket[j].route.params,
                                                 cn.request.path)]]
        /\ UNCHANGED <<handlers, middlewares, phase>>

\* One iteration of the middleware loop.
InvokeMiddleware(c) ==
    LET cn    == conns[c]
        res   == RunBody(middlewares[cn.midx], cn.request, cn.response)
        entry == [kind |-> "middleware", id |-> cn.midx, route |-> cn.ridx,
                  params |-> cn.request.params, flag |-> should_respond(res)]
    IN  /\ cn.pc = "chain"
        /\ cn.midx <= Len(middlewares)
        /\ conns' = [conns EXCEPT ![c] =
                        AfterStage(cn, res, entry, "chain", cn.ridx, cn.midx + 1)]
        /\ UNCHANGED <<handlers, middlewares, phase>>

\* The handler of the matching route, after the middleware loop.
InvokeHandler(c) ==
    LET cn    == conns[c]
        h     == BucketOf(cn.request.method)[cn.ridx].handler
        res   == RunBody(h.body, cn.request, cn.response)
        entry == [kind |-> "handler", id |-> h.id, route |-> cn.ridx,
                  params |-> cn.request.params, flag |-> should_respond(res)]
    IN  /\ cn.pc = "chain"
        /\ cn.midx > Len(middlewares)
        /\ conns' = [conns EXCEPT ![c] =
                        AfterStage(cn, res, entry, "dispatch", cn.ridx + 1, 0)]
        /\ UNCHANGED <<handlers, middlewares, phase>>

(***************************************************************************)
(* The inputs of the model: the registrations main() may make and the      *)
(* requests a peer may send.                                               *)
(***************************************************************************)
RegMethods == {Method("GET"), Method("POST"), Other("PURGE")}

Patterns ==
    { <<"/">>,
      <<"/", ":", "i", "d">>,
      <<"/", "*", "*">> }

ReqVerbs == {"GET", "POST", "PURGE"}

ReqTargets ==
    { <<"/">>,
      <<"/", "4", "2">> }

RequestWire(verb, target) ==
    <<MethodItem(verb), SP, TargetItem(target), SP, VersionItem, CRLF,
      HostName, HostValue, CRLF, CRLF>>

\* A request that arrives in one read, and a peer that closes at once.
WholeScripts(verbs, targets) ==
    {[chunks |-> <<RequestWire(v, t)>>, closes |-> TRUE] : v \in verbs, t \in targets}
    \cup {[chunks |-> <<>>, closes |-> TRUE]}

Next ==
    \/ \E m \in RegMethods, p \in Patterns, b \in HandlerBodies : Route(m, p, b)
    \/ \E b \in MiddlewareBodies : AddMiddleware(b)
    \/ Start
    \/ \E c \in Conns, s \in WholeScripts(ReqVerbs, ReqTargets) : AcceptConn(c, s)
    \/ \E c \in Conns : Read(c)
    \/ \E c \in Conns : ScanRoutes(c)
    \/ \E c \in Conns : InvokeMiddleware(c)
    \/ \E c \in Conns : InvokeHandler(c)

Spec == Init /\ [][Next]_vars

(***************************************************************************)
(* Matching alone: a server without middleware, GET routes over more       *)
(* patterns, and GET requests over more paths.                             *)
(***************************************************************************)
AStarB == <<"/", "a", "/", "*", "/", "b">>

MatchPatterns ==
    { <<"/", ":", "i", "d">>,
      <<"/", "*", "*">>,
      AStarB,
      <<"/", "u", "/", ":", "i", "d">>,
      <<"/", ":", "k", "/", ":", "k">> }

MatchTargets ==
    { <<"/", "4", "2">>,
      <<"/", "u", "/", "4", "2">>,
      <<"/", "a", "/", "x", "y", "/", "b", "/">>,
      <<"/", "a", "/", "x", "/", "y", "/", "b">>,
      <<"/", "a", "/", "/", "b">>,
      <<"/", "a", "/", "b">> }

NextMatch ==
    \/ \E p \in MatchPatterns, b \in HandlerBodies : Route(Method("GET"), p, b)
    \/ Start
    \/ \E c \in Conns, s \in WholeScripts({"GET"}, MatchTargets) : AcceptConn(c, s)
    \/ \E c \in Conns : Read(c)
    \/ \E c \in Conns : ScanRoutes(c)
    \/ \E c \in Conns : InvokeHandler(c)

SpecMatch == Init /\ [][NextMatch]_vars

(***************************************************************************)
(* The reader loop alone: a server that main() has set up with one         *)
(* middleware and one route, and peers that send a request in pieces, or   *)
(* as many bytes as the size cap allows.                                   *)
(***************************************************************************)
MaxPieces == 3

\* The reads after which the buffer holds exactly ONE_MB bytes.
CapReads == ONE_MB \div ChunkSize

Repeat(x, k) == [i \in 1..k |-> x]

\* The ways to cut w into at most k consecutive non-empty pieces.
RECURSIVE Splits(_, _)
Splits(w, k) ==
    IF w = <<>> THEN {<<>>}
    ELSE IF k = 0 THEN {}
    ELSE UNION {{<<Take(w, n)>> \o r : r \in Splits(Drop(w, n), k - 1)} : n \in 1..Len(w)}

SplitTarget == <<"/", "a", "?", "x", "=", "1", "&", "x", "=", "2">>

\* "GET /a HTTP/1.1\r\nHost: ", the start of a head whose header value follows.
OpenHead ==
    <<MethodItem("GET"), SP, TargetItem(<<"/", "a">>), SP, VersionItem, CRLF, HostName>>

\* One request cut into pieces, each piece returned by one read.
SplitScripts ==
    {[chunks |-> ch, closes |-> cl] :
        ch \in Splits(RequestWire("GET", SplitTarget), MaxPieces), cl \in BOOLEAN}

\* A head whose header value fills every read up to exactly ONE_MB bytes.
FullScript ==
    [chunks |-> <<OpenHead \o <<Fill(ChunkSize - Bytes(OpenHead))>>>>
                \o Repeat(<<Fill(ChunkSize)>>, CapReads - 2)
                \o <<<<Fill(ChunkSize - 4), CRLF, CRLF>>>>,
     closes |-> TRUE]

\* The same head, ended two bytes later.
FullPlusScript ==
    [chunks |-> <<OpenHead \o <<Fill(ChunkSize - Bytes(OpenHead))>>>>
                \o Repeat(<<Fill(ChunkSize)>>, CapReads - 2)
                \o <<<<Fill(ChunkSize - 2), CRLF>>, <<CRLF>>>>,
     closes |-> TRUE]

\* The same head, its header value arriving one byte per read.
DripScript ==
    [chunks |-> <<OpenHead>> \o Repeat(<<Fill(1)>>, CapReads + 1), closes |-> TRUE]

ReaderScripts == SplitScripts \cup {FullScript, FullPlusScript, DripScript}

InitReader ==
    /\ handlers = [m \in IterMethods |->
                     IF m = Method("GET")
                     THEN PushAndSort(<<>>, RouteEntry(m, <<"/", "*", "*">>, "hello", 1))
                     ELSE <<>>]
    /\ middlewares = <<"pass">>
    /\ phase = "serving"
    /\ conns = [c \in Conns |-> IdleConn]

NextReader ==
    \/ \E c \in Conns, s \in ReaderScripts : AcceptConn(c, s)
    \/ \E c \in Conns : Read(c)
    \/ \E c \in Conns : ScanRoutes(c)
    \/ \E c \in Conns : InvokeMiddleware(c)
    \/ \E c \in Conns : InvokeHandler(c)

SpecReader == InitReader /\ [][NextReader]_vars

(***************************************************************************)
(* Properties.  What they speak of: the bucket a connection's request is   *)
(* looked up in, the routes of it that match the request's path, and the   *)
(* stages the connection has called.                                       *)
(***************************************************************************)
Parsed(cn) == cn.request.ok

ReqBucket(cn) == IF Parsed(cn) THEN BucketOf(cn.request.method) ELSE <<>>

Matches(cn, i) == is_match(ReqBucket(cn)[i].route.path, cn.request.path)

MatchingRoutes(cn) == {i \in 1..Len(ReqBucket(cn)) : Matches(cn, i)}

IsHandlerCall(e) == e.kind = "handler"

IsMiddlewareCall(e) == e.kind = "middleware"

HandlerCalls(cn) == SelectSeq(cn.invoked, IsHandlerCall)

MiddlewareCalls(cn) == SelectSeq(cn.invoked, IsMiddlewareCall)

\* The positions in invoked at which the handler with this id was called.
CallsOf(cn, id) ==
    {k \in 1..Len(cn.invoked) : IsHandlerCall(cn.invoked[k]) /\ cn.invoked[k].id = id}

\* The matching routes of the bucket, in stored order.
MatchingSeq(cn) ==
    LET Match(e) == is_match(e.route.path, cn.request.path)
    IN  SelectSeq(ReqBucket(cn), Match)

\* C1 as stated: when routes R1 and R2 of the request's bucket both match the
\* path and R1 is stored before R2, the handler of R2 is not invoked on the
\* connection.
C1_OnlyFirstMatchInvoked ==
    \A c \in Conns :
        LET cn == conns[c]
            b  == ReqBucket(cn)
        IN  \A i, j \in MatchingRoutes(cn) :
                i < j => CallsOf(cn, b[j].handler.id) = {}

\* C1 as amended: when routes R1 and R2 of the request's bucket both match the
\* path and R1 is stored before R2, the handler of R2 is invoked only after
\* the handler of R1 was invoked and returned without setting the flag.
C1_StoredOrderDispatch ==
    \A c \in Conns :
        LET cn == conns[c]
            b  == ReqBucket(cn)
        IN  \A i, j \in MatchingRoutes(cn) :
                i < j =>
                    \A k \in CallsOf(cn, b[j].handler.id) :
                        \E k1 \in CallsOf(cn, b[i].handler.id) :
                            k1 < k /\ ~cn.invoked[k1].flag

\* Two routes match, the first one's handler was invoked and its response
\* was written, the second one's handler was not invoked.
C1_Witness ==
    \E c \in Conns :
        LET cn == conns[c]
            b  == ReqBucket(cn)
        IN  \E i, j \in MatchingRoutes(cn) :
                /\ i < j
                /\ \E k \in CallsOf(cn, b[i].handler.id) : cn.invoked[k].flag
                /\ CallsOf(cn, b[j].handler.id) = {}
                /\ Len(cn.written) = 1
                /\ cn.pc = "done"

\* C2: with a middleware registered that sets status 403 and the flag on
\* every call, no handler is invoked on any connection, whatever the request
\* and the routes; what is written carries status 403.
C2_DenyingMiddlewareStopsHandlers ==
    (\E m \in 1..Len(middlewares) : middlewares[m] = "deny") =>
        \A c \in Conns :
            /\ HandlerCalls(conns[c]) = <<>>
            /\ \A w \in 1..Len(conns[c].written) :
                   conns[c].written[w].status_line[2] = 403

\* The denying middleware ran for a request that a route matches, and the
\* 403 response was written.
C2_Witness ==
    /\ \E m \in 1..Len(middlewares) : middlewares[m] = "deny"
    /\ \E c \in Conns :
           /\ conns[c].pc = "done"
           /\ MatchingRoutes(conns[c]) # {}
           /\ Len(conns[c].written) = 1
           /\ conns[c].written[1].status_line[2] = 403

\* C3: when the task of a parsed request has ended, the middlewares were
\* invoked once each in registration order, up to and including the first
\* one that set the flag, whether or not a route matches.
C3_MiddlewaresRunForEveryRequest ==
    \A c \in Conns :
        LET cn  == conns[c]
            mws == MiddlewareCalls(cn)
        IN  (cn.pc = "done" /\ Parsed(cn)) =>
                /\ \A k \in 1..Len(mws) : mws[k].id = k
                /\ \A k \in 1..(Len(mws) - 1) : ~mws[k].flag
                /\ \/ Len(mws) = Len(middlewares)
                   \/ (Len(mws) > 0 /\ mws[Len(mws)].flag)

\* A stage that returned with the flag set is the last stage invoked: the
\* task has ended and has written the response as it then was.
FlagTerminal(cn) ==
    \A k \in 1..Len(cn.invoked) :
        cn.invoked[k].flag =>
            /\ k = Len(cn.invoked)
            /\ cn.pc = "done"
            /\ cn.written = <<return_response(cn.response)>>

\* C4: the flag is terminal: after a stage returns with it set the response
\* is written and no middleware or handler is invoked any more; and no step
\* resets the flag of a Response from true to false.
C4_FlagIsTerminal ==
    /\ [](\A c \in Conns : FlagTerminal(conns[c]))
    /\ [][\A c \in Conns :
             should_respond(conns[c].response) => should_respond(conns'[c].response)]_vars

\* A second stage set the flag after a first one had not.
C4_Witness ==
    \E c \in Conns :
        /\ Len(conns[c].invoked) >= 2
        /\ conns[c].invoked[Len(conns[c].invoked)].flag
        /\ should_respond(conns[c].response)

\* C5: at most one response is written on a connection, and once it is
\* written the task has ended: nothing of the connection changes any more.
C5_AtMostOneResponse ==
    /\ [](\A c \in Conns :
             /\ Len(conns[c].written) <= 1
             /\ conns[c].written # <<>> => conns[c].pc = "done")
    /\ [][\A c \in Conns : conns[c].written # <<>> => conns'[c] = conns[c]]_vars

\* A response was written after a read and after more than one stage, with
\* a further matching route left in the bucket.
C5_Witness ==
    \E c \in Conns :
        LET cn == conns[c]
        IN  /\ Len(cn.written) = 1
            /\ cn.reads >= 1
            /\ Len(cn.invoked) >= 2
            /\ \E i \in MatchingRoutes(cn) : i > cn.ridx

ParsedWhole(cn) == parse_request(ExtendBuffer(<<>>, cn.sent))

\* C7: once the bytes received (in one read or in several, fewer than a chunk
\* in all) hold a complete head, the connection has parsed the Request that
\* the same bytes give in a single read, and has gone on to dispatch.
C7_SplitHeadParsesLikeWhole ==
    \A c \in Conns :
        LET cn    == conns[c]
            whole == ParsedWhole(cn)
        IN  (cn.last_read > 0 /\ cn.received < ChunkSize /\ whole.ok) =>
                /\ Parsed(cn)
                /\ cn.pc # "read"
                /\ cn.request.method = whole.method
                /\ cn.request.path = whole.path
                /\ cn.request.headers = whole.headers
                /\ cn.request.query = whole.query

\* C8: the cap is on the bytes received: the reader gives up for size exactly
\* when more than ONE_MB bytes were received, and a request complete within
\* ONE_MB received bytes is dispatched.
C8_CapCountsReceivedBytes ==
    \A c \in Conns :
        LET cn == conns[c]
        IN  /\ (cn.pc = "aborted" /\ cn.last_read > 0) <=> cn.received > ONE_MB
            /\ (cn.pc = "read" /\ cn.last_read > 0) => cn.received <= ONE_MB

\* The segment of path at position k: the characters between the k-th "/"
\* and the next one (or the end); empty when the path has fewer slashes.
SlashPositions(path) == {i \in 1..Len(path) : path[i] = "/"}

SegmentAt(path, k) ==
    LET sl    == SlashPositions(path)
        start == IF k = 0 THEN {0}
                 ELSE {i \in sl : Cardinality({j \in sl : j <= i}) = k}
        from  == CHOOSE i \in start : TRUE
        later == {i \in sl : i > from}
        to    == IF later = {} THEN Len(path) + 1
                 ELSE CHOOSE i \in later : \A j \in later : i <= j
    IN  IF start = {} THEN <<>> ELSE SubSeq(path, from + 1, to - 1)

AllWord(seg) == seg # <<>> /\ \A i \in 1..Len(seg) : IsWord(seg[i])

\* The parameter at index q of the route is bound, in the parameters the
\* handler call e saw, to the whole segment at its position.
BoundToSegment(cn, e, q) ==
    LET p   == ReqBucket(cn)[e.route].route.params[q]
        seg == SegmentAt(cn.request.path, p.num_slashes_before)
    IN  AllWord(seg) => (p.name \in DOMAIN e.params /\ e.params[p.name] = seg)

\* C9 as stated: when a handler is invoked, every parameter of its route
\* whose segment is made of word characters is bound to that segment.
C9_EveryParamBound ==
    \A c \in Conns :
        LET cn == conns[c]
        IN  \A k \in 1..Len(cn.invoked) :
                IsHandlerCall(cn.invoked[k]) =>
                    \A q \in 1..Len(ReqBucket(cn)[cn.invoked[k].route].route.params) :
                        BoundToSegment(cn, cn.invoked[k], q)

\* C9 as amended: when a handler is invoked, every parameter of its route
\* whose segment is made of word characters, and whose name no later
\* parameter of the route repeats, is bound to that segment.
C9_LastParamOfNameBound ==
    \A c \in Conns :
        LET cn == conns[c]
        IN  \A k \in 1..Len(cn.invoked) :
                IsHandlerCall(cn.invoked[k]) =>
                    LET ps == ReqBucket(cn)[cn.invoked[k].route].route.params
                    IN  \A q \in 1..Len(ps) :
                            (\A q2 \in (q + 1)..Len(ps) : ps[q2].name # ps[q].name) =>
                                BoundToSegment(cn, cn.invoked[k], q)

\* The handler of "/u/:id" was invoked for "/u/42/" with id = "42".
C9_Witness ==
    \E c \in Conns :
        LET cn == conns[c]
        IN  \E k \in 1..Len(cn.invoked) :
                /\ IsHandlerCall(cn.invoked[k])
                /\ ReqBucket(cn)[cn.invoked[k].route].pattern = <<"/", "u", "/", ":", "i", "d">>
                /\ cn.request.path = <<"/", "u", "/", "4", "2", "/">>
                /\ <<"i", "d">> \in DOMAIN cn.invoked[k].params
                /\ cn.invoked[k].params[<<"i", "d">>] = <<"4", "2">>

\* The path is "/a/", one non-empty segment without "/", "/b/".
OneSegmentBetweenAB(path) ==
    /\ Len(path) >= 7
    /\ Take(path, 3) = <<"/", "a", "/">>
    /\ Drop(path, Len(path) - 3) = <<"/", "b", "/">>
    /\ \A i \in 4..(Len(path) - 3) : path[i] # "/"

\* C10: a route registered as "/a/*/b" matches a request path exactly when
\* the path has one non-empty segment between "/a/" and "/b/", and its
\* handler is invoked for no other path.
C10_SingleStarOneSegment ==
    \A c \in Conns :
        LET cn == conns[c]
            b  == ReqBucket(cn)
        IN  /\ \A i \in 1..Len(b) :
                   b[i].pattern = AStarB =>
                       (Matches(cn, i) <=> OneSegmentBetweenAB(cn.request.path))
            /\ \A k \in 1..Len(cn.invoked) :
                   (IsHandlerCall(cn.invoked[k]) /\ b[cn.invoked[k].route].pattern = AStarB)
                       => OneSegmentBetweenAB(cn.request.path)

\* The handler of "/a/*/b" was invoked for "/a/xy/b/".
C10_Witness ==
    \E c \in Conns :
        LET cn == conns[c]
        IN  \E k \in 1..Len(cn.invoked) :
                /\ IsHandlerCall(cn.invoked[k])
                /\ ReqBucket(cn)[cn.invoked[k].route].pattern = AStarB
                /\ cn.request.path = <<"/", "a", "/", "x", "y", "/", "b", "/">>

(***************************************************************************)
(* The catch-all and the one-parameter pattern.                            *)
(***************************************************************************)
CatchAll == <<"/", "*", "*">>

IdPattern == <<"/", ":", "i", "d">>

\* C11: a route registered as "/**" matches the path of every parsed
\* request, the root path "/" included.
C11_CatchAllMatchesEveryPath ==
    \A c \in Conns :
        LET cn == conns[c]
            b  == ReqBucket(cn)
        IN  \A i \in 1..Len(b) : b[i].pattern = CatchAll => Matches(cn, i)

\* The positions of a bucket that hold a route registered with the pattern.
WithPattern(bucket, pattern) == {i \in 1..Len(bucket) : bucket[i].pattern = pattern}

\* In every bucket the "/:id" routes are stored before the "/**" routes.
IdBeforeCatchAll ==
    \A m \in DOMAIN handlers :
        \A i \in WithPattern(handlers[m], IdPattern) :
            \A j \in WithPattern(handlers[m], CatchAll) : i < j

\* C12 as stated: "/:id" is stored before "/**" whatever the order of
\* registration, and for a one-segment path the handler of "/**" is not
\* invoked when a "/:id" route is in the bucket.
C12_IdRouteServesNotCatchAll ==
    /\ IdBeforeCatchAll
    /\ \A c \in Conns :
           LET cn == conns[c]
               b  == ReqBucket(cn)
           IN  (Parsed(cn) /\ cn.request.path = <<"/", "4", "2", "/">>
                    /\ WithPattern(b, IdPattern) # {}) =>
                   \A j \in WithPattern(b, CatchAll) : CallsOf(cn, b[j].handler.id) = {}

\* C12 as amended: "/:id" is stored before "/**" whatever the order of
\* registration, and for a one-segment path the handler of "/**" is invoked
\* only after the handler of every "/:id" route of the bucket was invoked
\* and returned without setting the flag.
C12_IdRouteFirst ==
    /\ IdBeforeCatchAll
    /\ \A c \in Conns :
           LET cn == conns[c]
               b  == ReqBucket(cn)
           IN  (Parsed(cn) /\ cn.request.path = <<"/", "4", "2", "/">>) =>
                   \A j \in WithPattern(b, CatchAll) :
                       \A k \in CallsOf(cn, b[j].handler.id) :
                           \A i \in WithPattern(b, IdPattern) :
                               \E k1 \in CallsOf(cn, b[i].handler.id) :
                                   k1 < k /\ ~cn.invoked[k1].flag

\* "/**" was registered first and "/:id" second; the request for "/42" was
\* answered by the handler of "/:id", and the handler of "/**" was not
\* invoked.
C12_Witness ==
    \E c \in Conns :
        LET cn == conns[c]
            b  == ReqBucket(cn)
        IN  /\ cn.pc = "done"
            /\ cn.request.path = <<"/", "4", "2", "/">>
            /\ \E i \in WithPattern(b, IdPattern), j \in WithPattern(b, CatchAll) :
                   /\ b[j].handler.id < b[i].handler.id
                   /\ \E k \in CallsOf(cn, b[i].handler.id) : cn.invoked[k].flag
                   /\ CallsOf(cn, b[j].handler.id) = {}
            /\ Len(cn.written) = 1

(***************************************************************************)
(* Paths alone: GET routes registered with and without a trailing slash    *)
(* (the empty pattern included), and GET requests whose targets end with   *)
(* or without a slash, carry a query, or hold a segment that is not made   *)
(* of word characters.                                                     *)
(***************************************************************************)
PathPatterns ==
    { <<>>,
      <<"/">>,
      <<"/", "a">>,
      <<"/", "a", "/">>,
      IdPattern }

PathTargets ==
    { <<"/">>,
      <<"/", "a">>,
      <<"/", "a", "/">>,
      <<"/", "a", "?", "x", "=", "1">>,
      <<"/", "4", "2">>,
      <<"/", "4", "-", "2">>,
      <<"/", "-", "4", "2">> }

NextPaths ==
    \/ \E p \in PathPatterns, b \in HandlerBodies : Route(Method("GET"), p, b)
    \/ Start
    \/ \E c \in Conns, s \in WholeScripts({"GET"}, PathTargets) : AcceptConn(c, s)
    \/ \E c \in Conns : Read(c)
    \/ \E c \in Conns : ScanRoutes(c)
    \/ \E c \in Conns : InvokeHandler(c)

SpecPaths == Init /\ [][NextPaths]_vars

\* The request target the peer has sent on a connection whose request parsed.
TargetOf(cn) == cn.sent[3].s

\* C13: normalise_path is idempotent, on every pattern a route was
\* registered with (the empty one included) and on the path of every
\* request target received: applied to its own result it changes nothing.
C13_NormaliseIdempotent ==
    /\ \A m \in DOMAIN handlers :
           \A i \in 1..Len(handlers[m]) :
               LET p == handlers[m][i].pattern
               IN  normalise_path(normalise_path(p)) = normalise_path(p)
    /\ \A c \in Conns :
           Parsed(conns[c]) =>
               LET p == UrlPath(TargetOf(conns[c]))
               IN  /\ normalise_path(normalise_path(p)) = normalise_path(p)
                   /\ normalise_path(conns[c].request.path) = conns[c].request.path

\* Routes were registered with the empty pattern and with a pattern that
\* already ends with "/", and a request was parsed whose target does not
\* end with "/".
C13_Witness ==
    /\ \E i \in 1..Len(handlers[Method("GET")]) :
           handlers[Method("GET")][i].pattern = <<>>
    /\ \E i \in 1..Len(handlers[Method("GET")]) :
           handlers[Method("GET")][i].pattern = <<"/", "a", "/">>
    /\ \E c \in Conns :
           /\ Parsed(conns[c])
           /\ TargetOf(conns[c]) = <<"/", "a">>
           /\ conns[c].request.path = <<"/", "a", "/">>

\* C18: the path of every parsed Request ends with "/", and every stored
\* route is the compilation of its pattern made to end with "/": the
\* compiled pattern ends with "/$".
C18_PathsEndWithSlash ==
    /\ \A c \in Conns :
           Parsed(conns[c]) =>
               LET path == conns[c].request.path
               IN  Len(path) > 0 /\ path[Len(path)] = "/"
    /\ \A m \in DOMAIN handlers :
           \A i \in 1..Len(handlers[m]) :
               LET e == handlers[m][i]
                   r == e.route.path
               IN  /\ Len(r) >= 3 /\ r[Len(r) - 1] = "/" /\ r[Len(r)] = "$"
                   /\ \E n \in {e.pattern, e.pattern \o <<"/">>} :
                          /\ Len(n) > 0 /\ n[Len(n)] = "/"
                          /\ r = glob_to_regex(ReplaceParams(n))

\* A request whose target has a query and no trailing slash was parsed to
\* the path "/a/", with a route registered without a trailing slash.
C18_Witness ==
    /\ \E i \in 1..Len(handlers[Method("GET")]) :
           handlers[Method("GET")][i].pattern = <<"/", "a">>
    /\ \E c \in Conns :
           /\ Parsed(conns[c])
           /\ TargetOf(conns[c]) = <<"/", "a", "?", "x", "=", "1">>
           /\ conns[c].request.path = <<"/", "a", "/">>

\* C20: when a handler is invoked, a parameter of its route whose segment
\* holds a character that is not a word character has no value in the
\* parameters the handler sees.
C20_NonWordSegmentNotCaptured ==
    \A c \in Conns :
        LET cn == conns[c]
        IN  \A k \in 1..Len(cn.invoked) :
                IsHandlerCall(cn.invoked[k]) =>
                    LET ps == ReqBucket(cn)[cn.invoked[k].route].route.params
                    IN  \A q \in 1..Len(ps) :
                            LET seg == SegmentAt(cn.request.path, ps[q].num_slashes_before)
                            IN  (seg # <<>> /\ ~AllWord(seg)) =>
                                    ps[q].name \notin DOMAIN cn.invoked[k].params

(***************************************************************************)
(* The response text alone: GET routes whose handlers answer with the      *)
(* default headers or with one more, after a handler that changed the      *)
(* status or not, and Responses whose header maps iterate in every order.  *)
(***************************************************************************)
WireBodies == {"hello", "silent", "tagged"}

WirePatterns == {<<"/">>, CatchAll}

WireTargets == {<<"/">>, <<"/", "4", "2">>}

\* The enumerations of a set: every order its elements can be listed in.
Orderings(S) ==
    {f \in [1..Cardinality(S) -> S] : \A i, j \in DOMAIN f : i # j => f[i] # f[j]}

\* Every order of the names a Response of these handlers holds, before the
\* names it never holds.
WireHashOrders ==
    {f \o SubSeq(DefaultHashOrder, 4, Len(DefaultHashOrder)) :
        f \in Orderings({"content-type", "Date", "x-served-by"})}

NextWire ==
    \/ \E p \in WirePatterns, b \in WireBodies : Route(Method("GET"), p, b)
    \/ Start
    \/ \E c \in Conns, s \in WholeScripts({"GET"}, WireTargets), o \in WireHashOrders :
           AcceptConnHashed(c, s, o)
    \/ \E c \in Conns : Read(c)
    \/ \E c \in Conns : ScanRoutes(c)
    \/ \E c \in Conns : InvokeHandler(c)

SpecWire == Init /\ [][NextWire]_vars

\* C14: the text written is the status line "HTTP/1.1 <code> <reason>\r\n",
\* then one line "<name>: <value>\r\n" per header of the Response, in some
\* order, then "\r\n", then the body; and a response with the default status
\* and the body "Hello bossman" begins with "HTTP/1.1 200 OK\r\n" and ends
\* with "\r\n\r\nHello bossman".
C14_ResponseTextLayout ==
    \A c \in Conns :
        \A n \in 1..Len(conns[c].written) :
            LET w    == conns[c].written[n]
                text == w.response_string
                line(k) == <<k, ": ", w.headers[k], "\r\n">>
                lines(keys) ==
                    IF Len(keys) = 2 THEN line(keys[1]) \o line(keys[2])
                    ELSE line(keys[1]) \o line(keys[2]) \o line(keys[3])
            IN  /\ Cardinality(DOMAIN w.headers) \in {2, 3}
                /\ \E keys \in Orderings(DOMAIN w.headers) :
                       text = <<"HTTP/1.1", " ">> \o DecimalString(w.status_line[2])
                                  \o <<" ", w.status_line[3], "\r\n">>
                                  \o lines(keys)
                                  \o <<"\r\n">>
                                  \o (IF w.body = "" THEN <<>> ELSE <<w.body>>)
                /\ (w.status_line[2] = 200 /\ w.body = "Hello bossman") =>
                       /\ SubSeq(text, 1, 8)
                              = <<"HTTP/1.1", " ", "2", "0", "0", " ", "OK", "\r\n">>
                       /\ SubSeq(text, Len(text) - 2, Len(text))
                              = <<"\r\n", "\r\n", "Hello bossman">>

\* GET "/" was answered by the handler that sets the body "Hello bossman",
\* and the Date line was written before the content-type line.
C14_Witness ==
    \E c \in Conns :
        /\ conns[c].pc = "done"
        /\ conns[c].request.path = <<"/">>
        /\ conns[c].written =
               <<return_response(conns[c].response)>>
        /\ conns[c].written[1].response_string =
               <<"HTTP/1.1", " ", "2", "0", "0", " ", "OK", "\r\n",
                 "Date", ": ", "accept-time", "\r\n",
                 "content-type", ": ", "application/json",
                 "\r\n", "\r\n", "Hello bossman">>

\* C15: a registration succeeds whatever its method, a method OTHER with a
\* raw verb included: Server::route never fails.
C15_EveryMethodRegisters == phase # "panicked"

\* C19: path parameters are inserted only after the middlewares have run: a
\* middleware never sees a path parameter in the Request.
C19_MiddlewareSeesNoPathParams ==
    \A c \in Conns :
        \A k \in 1..Len(conns[c].invoked) :
            IsMiddlewareCall(conns[c].invoked[k]) =>
                conns[c].invoked[k].params = EmptyMap

(***************************************************************************)
(* The CORS middleware: the routes of main() and others like them, on POST *)
(* and on OPTIONS, and OPTIONS and POST requests.                          *)
(***************************************************************************)
SendEmailPath ==
    <<"/", "a", "p", "i", "/", "v", "1", "/",
      "s", "e", "n", "d", "_", "e", "m", "a", "i", "l">>

NextCors ==
    \/ \E m \in {Method("POST"), Method("OPTIONS")}, p \in {SendEmailPath, CatchAll} :
           Route(m, p, "hello")
    \/ \E b \in CorsBodies : AddMiddleware(b)
    \/ Start
    \/ \E c \in Conns, s \in WholeScripts({"OPTIONS", "POST"}, {SendEmailPath, <<"/">>}) :
           AcceptConn(c, s)
    \/ \E c \in Conns : Read(c)
    \/ \E c \in Conns : ScanRoutes(c)
    \/ \E c \in Conns : InvokeMiddleware(c)
    \/ \E c \in Conns : InvokeHandler(c)

SpecCors == Init /\ [][NextCors]_vars

\* C16: with the CORS middleware registered, when the task of a parsed
\* OPTIONS request has ended, one response was written, it carries the
\* Access-Control-Allow-Methods header, and no handler was invoked; for a
\* request of another method no middleware call set the flag.
C16_CorsShortCircuitsPreflight ==
    \A c \in Conns :
        LET cn == conns[c]
        IN  (Parsed(cn) /\ cn.pc = "done" /\ middlewares # <<>>) =>
                IF cn.request.method = Method("OPTIONS")
                THEN /\ Len(cn.written) = 1
                     /\ "access-control-allow-methods" \in DOMAIN cn.written[1].headers
                     /\ HandlerCalls(cn) = <<>>
                ELSE \A k \in 1..Len(cn.invoked) :
                         IsMiddlewareCall(cn.invoked[k]) => ~cn.invoked[k].flag

(***************************************************************************)
(* Registration alone: GET and POST routes over patterns with different    *)
(* numbers of slashes, wildcards and parameters.                           *)
(***************************************************************************)
SortPatterns ==
    { <<"/">>,
      <<"x">>,
      <<"/", "a", "/", "b">>,
      IdPattern,
      CatchAll,
      AStarB,
      <<"*", "*", "*", "*", "*", "*", "*", "*">> }

NextSort ==
    \/ \E m \in {Method("GET"), Method("POST")}, p \in SortPatterns :
           Route(m, p, "hello")
    \/ Start

SpecSort == Init /\ [][NextSort]_vars

\* C17: every bucket holds routes of its own method only and is sorted by
\* the number of "/" of the compiled pattern descending, then by the adjusted
\* length (the length minus 5 per "[^/]+" and minus 3 per ".+") ascending,
\* then by the number of parameters descending.
C17_BucketsSortedByThreeKeys ==
    \A m \in DOMAIN handlers :
        LET b == handlers[m]
            slashes(e)  == CountMatches(e.route.path, <<"/">>)
            adjusted(e) == Len(e.route.path)
                               - 5 * CountMatches(e.route.path, SegPlus)
                               - 3 * CountMatches(e.route.path, AnyPlus)
            InOrder(x, y) ==
                \/ slashes(x) > slashes(y)
                \/ /\ slashes(x) = slashes(y)
                   /\ \/ adjusted(x) < adjusted(y)
                      \/ /\ adjusted(x) = adjusted(y)
                         /\ Len(x.route.params) >= Len(y.route.params)
        IN  /\ \A i \in 1..Len(b) : b[i].route.method = m
            /\ \A i \in 1..(Len(b) - 1) : InOrder(b[i], b[i + 1])

(***************************************************************************)
(* Parse failures: a server set up like the one of the reader loop, and    *)
(* peers that send nothing, zero bytes, a head that stays incomplete, a    *)
(* target the url crate rejects, or a whole request.                       *)
(***************************************************************************)
\* ":99999", a port above the u16 range once put after "https://a.b".
BadPortTarget == <<":", "9", "9", "9", "9", "9">>

\* One full chunk that holds the start of a head and no zero byte.
OpenChunk == OpenHead \o <<Fill(ChunkSize - Bytes(OpenHead))>>

ParseScripts ==
    {[chunks |-> ch, closes |-> cl] :
        ch \in { <<>>,
                 << <<Nul(1)>> >>,
                 << OpenChunk >>,
                 << OpenChunk, <<Fill(1)>> >>,
                 << RequestWire("GET", BadPortTarget) >>,
                 << RequestWire("GET", <<"/", "a">>) >> },
        cl \in BOOLEAN}
    \cup {[chunks |-> Repeat(<<Nul(1)>>, CapReads + 1), closes |-> TRUE]}

NextParse ==
    \/ \E c \in Conns, s \in ParseScripts : AcceptConn(c, s)
    \/ \E c \in Conns : Read(c)
    \/ \E c \in Conns : ScanRoutes(c)
    \/ \E c \in Conns : InvokeMiddleware(c)
    \/ \E c \in Conns : InvokeHandler(c)

SpecParse == InitReader /\ [][NextParse]_vars

\* C21: a read of zero bytes aborts the task at once: parse_request is not
\* called on that iteration, no request is parsed, no middleware or handler
\* is invoked, nothing is written, and nothing of the connection changes
\* afterwards.
C21_ZeroReadAborts ==
    /\ [](\A c \in Conns :
             LET cn == conns[c]
             IN  (cn.reads > 0 /\ cn.last_read = 0) =>
                     /\ cn.pc = "aborted"
                     /\ ~Parsed(cn)
                     /\ cn.invoked = <<>>
                     /\ cn.written = <<>>)
    /\ [][\A c \in Conns :
             (conns'[c].reads = conns[c].reads + 1 /\ conns'[c].last_read = 0) =>
                 /\ conns'[c].parses = conns[c].parses
                 /\ conns'[c].pc = "aborted"]_vars
    /\ [][\A c \in Conns :
             (conns[c].pc = "aborted" /\ conns[c].last_read = 0) =>
                 conns'[c] = conns[c]]_vars

\* The peer closed after two reads whose bytes did not parse: the third read
\* returned zero bytes and the task aborted, after two calls of parse_request.
C21_Witness ==
    \E c \in Conns :
        /\ conns[c].pc = "aborted"
        /\ conns[c].last_read = 0
        /\ conns[c].reads = 3
        /\ conns[c].parses = 2
        /\ conns[c].received > 0
        /\ conns[c].written = <<>>

\* C22: a failed parse only makes the reader read more: a connection whose
\* request has not parsed has invoked nothing and written nothing, and when
\* its task has ended it ended by a read of zero bytes or by the size cap.
C22_ParseFailureReadsMore ==
    \A c \in Conns :
        LET cn == conns[c]
        IN  ~Parsed(cn) =>
                /\ cn.invoked = <<>>
                /\ cn.written = <<>>
                /\ cn.pc \in {"idle", "read", "aborted"}
                /\ cn.pc = "aborted" =>
                       (cn.last_read = 0 \/ TooBig(cn.all_stream_data))

\* No route of the table is stored under the request's method with a
\* pattern that matches the request's path.
NoRouteMatches(cn) ==
    /\ Parsed(cn)
    /\ \/ cn.request.method \notin DOMAIN handlers
       \/ \A i \in 1..Len(handlers[cn.request.method]) :
              ~is_match(handlers[cn.request.method][i].route.path, cn.request.path)

ScanRoutesUnlocked(c) ==
    LET cn     == conns[c]
        bucket == BucketOf(cn.request.method)
        j      == FirstMatchFrom(bucket, cn.request.path, cn.ridx)
    IN  /\ cn.pc = "dispatch"
        /\ conns' = [conns EXCEPT ![c] =
                IF j = 0 THEN [cn EXCEPT !.pc = "done"]
                ELSE [cn EXCEPT !.pc = IF bucket[j].route.params = <<>>
                                       THEN "chain" ELSE "param_lock",
                                !.ridx = j,
                                !.midx = 1,
                                !.pidx = 1]]
        /\ UNCHANGED <<handlers, middlewares, phase>>

\* let mut locked_request = request.lock().await (212)
LockRequestForParam(c) ==
    LET cn == conns[c]
    IN  /\ cn.pc = "param_lock"
        /\ cn.request_lock = "free"
        /\ conns' = [conns EXCEPT ![c] =
                        [cn EXCEPT !.request_lock = "task", !.pc = "param_insert"]]
        /\ UNCHANGED <<handlers, middlewares, phase>>

\* The insert of one parameter (213-217); the guard is dropped at the end of
\* the loop body (218).
InsertParam(c) ==
    LET cn     == conns[c]
        params == BucketOf(cn.request.method)[cn.ridx].route.params
    IN  /\ cn.pc = "param_insert"
        /\ conns' = [conns EXCEPT ![c] =
                        [cn EXCEPT !.request.params =
                                       InsertParams(@, <<params[cn.pidx]>>, cn.request.path),
                                   !.request_lock = "free",
                                   !.pidx = @ + 1,
                                   !.pc = IF cn.pidx < Len(params)
                                          THEN "param_lock" ELSE "chain"]]
        /\ UNCHANGED <<handlers, middlewares, phase>>

\* middleware(request.clone(), response.clone()) or handler_func(...): the
\* call and the first poll of its future (224, 240).
CallStage(c) ==
    LET cn == conns[c]
    IN  /\ cn.pc = "chain"
        /\ conns' = [conns EXCEPT ![c] = [cn EXCEPT !.pc = "stage_lock_request"]]
        /\ UNCHANGED <<handlers, middlewares, phase>>

\* route!: let locked_request = req.lock().await (macro.rs:12)
StageLockRequest(c) ==
    LET cn == conns[c]
    IN  /\ cn.pc = "stage_lock_request"
        /\ cn.request_lock = "free"
        /\ conns' = [conns EXCEPT ![c] =
                        [cn EXCEPT !.request_lock = "stage", !.pc = "stage_lock_response"]]
        /\ UNCHANGED <<handlers, middlewares, phase>>

\* route!: let locked_response = res.lock().await (macro.rs:13)
StageLockResponse(c) ==
    LET cn == conns[c]
    IN  /\ cn.pc = "stage_lock_response"
        /\ cn.response_lock = "free"
        /\ conns' = [conns EXCEPT ![c] =
                        [cn EXCEPT !.response_lock = "stage", !.pc = "stage_body"]]
        /\ UNCHANGED <<handlers, middlewares, phase>>

\* route!: $handler_block(locked_request, locked_response).await (macro.rs:14):
\* the body runs with both guards, which were moved into it and are dropped
\* when it returns.
StageBody(c) ==
    LET cn    == conns[c]
        is_mw == cn.midx <= Len(middlewares)
        h     == BucketOf(cn.request.method)[cn.ridx].handler
        res   == RunBody(IF is_mw THEN middlewares[cn.midx] ELSE h.body,
                         cn.request, cn.response)
        entry == [kind   |-> IF is_mw THEN "middleware" ELSE "handler",
                  id     |-> IF is_mw THEN cn.midx ELSE h.id,
                  route  |-> cn.ridx,
                  params |-> cn.request.params,
                  flag   |-> should_respond(res)]
    IN  /\ cn.pc = "stage_body"
        /\ conns' = [conns EXCEPT ![c] =
                        [cn EXCEPT !.response = res,
                                   !.invoked = Append(@, entry),
                                   !.request_lock = "free",
                                   !.response_lock = "free",
                                   !.pc = "check_lock"]]
        /\ UNCHANGED <<handlers, middlewares, phase>>

\* let locked_response = response.lock().await (225, 241)
LockResponseForCheck(c) ==
    LET cn == conns[c]
    IN  /\ cn.pc = "check_lock"
        /\ cn.response_lock = "free"
        /\ conns' = [conns EXCEPT ![c] =
                        [cn EXCEPT !.response_lock = "task", !.pc = "check"]]
        /\ UNCHANGED <<handlers, middlewares, phase>>

\* A flag check whose guard outlives the loop body.
CheckFlag_KeepsGuard(c) ==
    LET cn    == conns[c]
        is_mw == cn.midx <= Len(middlewares)
    IN  /\ cn.pc = "check"
        /\ conns' = [conns EXCEPT ![c] =
                IF should_respond(cn.response)
                THEN [cn EXCEPT !.written = Append(@, return_response(cn.response)),
                                !.response_lock = "free",
                                !.pc = "done"]
                ELSE IF is_mw
                THEN [cn EXCEPT !.midx = @ + 1, !.pc = "chain"]
                ELSE [cn EXCEPT !.ridx = @ + 1, !.midx = 0, !.pc = "dispatch"]]
        /\ UNCHANGED <<handlers, middlewares, phase>>

\* if locked_response.should_respond() { return_response(locked_response, ..);
\* return } (226-229, 242-245): the guard is moved into return_response and
\* dropped there, or dropped at the end of the block.
CheckFlag(c) ==
    LET cn    == conns[c]
        is_mw == cn.midx <= Len(middlewares)
    IN  /\ cn.pc = "check"
        /\ conns' = [conns EXCEPT ![c] =
                IF should_respond(cn.response)
                THEN [cn EXCEPT !.written = Append(@, return_response(cn.response)),
                                !.response_lock = "free",
                                !.pc = "done"]
                ELSE IF is_mw
                THEN [cn EXCEPT !.response_lock = "free",
                                !.midx = @ + 1, !.pc = "chain"]
                ELSE [cn EXCEPT !.response_lock = "free",
                                !.ridx = @ + 1, !.midx = 0, !.pc = "dispatch"]]
        /\ UNCHANGED <<handlers, middlewares, phase>>

TwoParams == <<"/", ":", "k", "/", ":", "j">>

LockPatterns == {IdPattern, CatchAll, TwoParams}

LockTargets == {<<"/", "4", "2">>, <<"/", "a", "/", "b">>}

NextLocks ==
    \/ \E p \in LockPatterns, b \in HandlerBodies : Route(Method("GET"), p, b)
    \/ \E b \in MiddlewareBodies : AddMiddleware(b)
    \/ Start
    \/ \E c \in Conns, s \in WholeScripts({"GET"}, LockTargets) : AcceptConn(c, s)
    \/ \E c \in Conns : Read(c)
    \/ \E c \in Conns : ScanRoutesUnlocked(c)
    \/ \E c \in Conns : LockRequestForParam(c)
    \/ \E c \in Conns : InsertParam(c)
    \/ \E c \in Conns : CallStage(c)
    \/ \E c \in Conns : StageLockRequest(c)
    \/ \E c \in Conns : StageLockResponse(c)
    \/ \E c \in Conns : StageBody(c)
    \/ \E c \in Conns : LockResponseForCheck(c)
    \/ \E c \in Conns : CheckFlag(c)

SpecLocks == Init /\ [][NextLocks]_vars

\* C24: while a middleware or handler is being awaited the task holds neither
\* Mutex; the stage locks the Request, then the Response, and has released
\* both when it returns; so every lock().await of the dispatch finds its
\* Mutex free: those of the stage, the one before each flag check, and the
\* one of the parameter loop.
C24_NoLockHeldAcrossStage ==
    \A c \in Conns :
        LET cn == conns[c]
            locks == <<cn.request_lock, cn.response_lock>>
        IN  /\ cn.pc = "stage_lock_request"  => locks = <<"free", "free">>
            /\ cn.pc = "stage_lock_response" => locks = <<"stage", "free">>
            /\ cn.pc = "stage_body"          => locks = <<"stage", "stage">>
            /\ cn.pc = "check_lock"          => locks = <<"free", "free">>
            /\ cn.pc = "check"               => locks = <<"free", "task">>
            /\ cn.pc = "param_lock"          => locks = <<"free", "free">>
            /\ cn.pc = "param_insert"        => locks = <<"task", "free">>
            /\ cn.pc \in {"idle", "read", "dispatch", "chain", "done", "aborted"}
                   => locks = <<"free", "free">>

\* The handler of a route with two parameters is about to lock the Response,
\* after both parameters were inserted under the Request lock and after a
\* middleware returned without the flag and the task checked it.
C24_Witness ==
    \E c \in Conns :
        LET cn == conns[c]
        IN  /\ cn.pc = "stage_lock_response"
            /\ cn.midx > Len(middlewares)
            /\ Len(cn.invoked) >= 1
            /\ cn.pidx = 3
            /\ cn.request_lock = "stage"
            /\ cn.response_lock = "free"

(***************************************************************************)
(* Two connection tasks at once: tokio runs the spawned tasks in any       *)
(* interleaving.  Each has the clones of the tables made when it was       *)
(* accepted, and the tables are only written through &mut self, before     *)
(* start() borrows the server for good.                                    *)
(***************************************************************************)
TwoConns == {1, 2}

InitTwo ==
    /\ handlers = [m \in IterMethods |-> <<>>]
    /\ middlewares = <<>>
    /\ phase = "setup"
    /\ conns = [c \in TwoConns |-> IdleConn]

NextTwo ==
    \/ \E b \in HandlerBodies : Route(Method("GET"), CatchAll, b)
    \/ \E b \in MiddlewareBodies : AddMiddleware(b)
    \/ Start
    \/ \E c \in TwoConns, s \in WholeScripts({"GET", "POST"}, {<<"/", "4", "2">>}) :
           AcceptConn(c, s)
    \/ \E c \in TwoConns : Read(c)
    \/ \E c \in TwoConns : ScanRoutes(c)
    \/ \E c \in TwoConns : InvokeMiddleware(c)
    \/ \E c \in TwoConns : InvokeHandler(c)

SpecTwo == InitTwo /\ [][NextTwo]_vars

\* The task of the connection has ended.
Ended(cn) == cn.pc \in {"done", "aborted", "panicked"}

MaxCalls == 3

StatusCodes == {0, 99, 200, 201, 404, 418, 503, 600, 65535}

ResponseCalls ==
    {[name |-> "new", code |-> 0, key |-> "", data |-> ""]}
    \cup {[name |-> "set_status_code", code |-> k, key |-> "", data |-> ""] :
              k \in StatusCodes}
    \cup {[name |-> n, code |-> 0, key |-> "", data |-> d] :
              n \in {"set_body", "set_body_string", "set_body_str"}, d \in {"", "{}"}}
    \cup {[name |-> "add_header", code |-> 0, key |-> k, data |-> "v"] :
              k \in {"X-Served-By", "Content-Type"}}
    \cup {[name |-> "send", code |-> 0, key |-> "", data |-> ""]}

\* One call on the Response r.
ApplyCall(r, call) ==
    CASE call.name = "new"             -> ResponseNew("")
      [] call.name = "set_status_code" -> set_status_code(r, call.code)
      [] call.name = "set_body"        -> set_body(r, call.data)
      [] call.name = "set_body_string" -> set_body_string(r, call.data)
      [] call.name = "set_body_str"    -> set_body_str(r, call.data)
      [] call.name = "add_header"      -> add_header(r, call.key, call.data)
      [] OTHER                         -> send(r)

ResponseCall(c, call) ==
    /\ Len(conns[c].invoked) < MaxCalls \/ call.name = "new"
    /\ conns' = [conns EXCEPT ![c] =
                    [@ EXCEPT !.response = ApplyCall(@, call),
                              !.invoked = IF call.name = "new" THEN <<>>
                                          ELSE Append(@, call.name)]]
    /\ UNCHANGED <<handlers, middlewares, phase>>

NextResponse == \E c \in Conns, call \in ResponseCalls : ResponseCall(c, call)

SpecResponse == Init /\ [][NextResponse]_vars

\* C26: whatever methods were called on a Response since it was made, its
\* status text is the text of the table for its status code: "OK" for 200,
\* "Not Found" for 404, "Unknown Status" for a code the table does not list;
\* and a Response no method was called on has status 200, text "OK" and the
\* flag unset.
C26_StatusTextFollowsCode ==
    \A c \in Conns :
        LET r == conns[c].response
            listed == {100, 101, 102, 200, 201, 202, 204, 301, 302, 304, 400, 401,
                       403, 404, 405, 500, 501, 502, 503}
        IN  /\ r.status_text = get_status_text(r.status_code)
            /\ r.status_code = 200 => r.status_text = "OK"
            /\ r.status_code = 404 => r.status_text = "Not Found"
            /\ r.status_code \notin listed => r.status_text = "Unknown Status"
            /\ conns[c].invoked = <<>> =>
                   /\ r.status_code = 200
                   /\ r.status_text = "OK"
                   /\ ~should_respond(r)

\* A code outside the table was set, then a header was added and send was
\* called: the text is "Unknown Status" and the flag is set.
C26_Witness ==
    \E c \in Conns :
        /\ conns[c].invoked = <<"set_status_code", "add_header", "send">>
        /\ conns[c].response.status_code = 418
        /\ conns[c].response.status_text = "Unknown Status"
        /\ should_respond(conns[c].response)

\* The Response after the first k stages the connection has invoked, each
\* applied in turn to the Response made at accept, with the Request as the
\* stage saw it.
RECURSIVE Cumulative(_, _)
Cumulative(cn, k) ==
    IF k = 0 THEN ResponseNew("accept-time")
    ELSE LET e    == cn.invoked[k]
             body == IF e.kind = "middleware" THEN middlewares[e.id]
                     ELSE handlers[cn.request.method][e.route].handler.body
         IN  RunBody(body, [cn.request EXCEPT !.params = e.params], Cumulative(cn, k - 1))

\* C27: the task itself changes nothing of the Response, and of the Request
\* only the parameters: the Response is at every moment what the stages
\* invoked so far have made of the one created at accept, each applied to
\* the result of the one before, and the status line, the headers and the
\* body written are those of that Response.
C27_DispatcherFrame ==
    /\ [](\A c \in Conns :
             LET cn  == conns[c]
                 cum == Cumulative(cn, Len(cn.invoked))
             IN  Parsed(cn) =>
                     /\ cn.response = cum
                     /\ \A n \in 1..Len(cn.written) :
                            /\ cn.written[n].status_line =
                                   <<"HTTP/1.1", cum.status_code, cum.status_text>>
                            /\ cn.written[n].headers = cum.headers
                            /\ cn.written[n].body =
                                   (IF cum.body.some THEN cum.body.val ELSE ""))
    /\ [][\A c \in Conns :
             (Parsed(conns[c]) /\ conns[c].pc # "stage_body") =>
                 /\ conns'[c].response = conns[c].response
                 /\ [conns'[c].request EXCEPT !.params = conns[c].request.params]
                        = conns[c].request]_vars

\* A handler set status 404 and returned without the flag, the handler of the
\* next matching route set the body and the flag: the response written has
\* status 404 and that body, and the Request holds a path parameter.
C27_Witness ==
    \E c \in Conns :
        LET cn == conns[c]
        IN  /\ cn.pc = "done"
            /\ Len(cn.written) = 1
            /\ cn.written[1].status_line[2] = 404
            /\ cn.written[1].body = "Hello bossman"
            /\ Len(MiddlewareCalls(cn)) >= 2
            /\ cn.request.params # EmptyMap

\* The number of zero bytes in a sequence of items.
NulBytes(items) ==
    LET IsNul(it) == it.k = "nul"
    IN  Bytes(SelectSeq(items, IsNul))

\* C28: after k reads the accumulated buffer holds exactly 8192 * k bytes,
\* however many bytes the reads returned: the bytes received and, for the
\* rest, zero bytes; the buffer is what the parser is given, and the body of
\* the Request parsed from a short read is the zero bytes that follow the
\* head in the chunk.
C28_BufferGrowsByWholeChunks ==
    \A c \in Conns :
        LET cn == conns[c]
        IN  /\ Bytes(cn.all_stream_data) = 8192 * cn.reads
            /\ NulBytes(cn.all_stream_data) = 8192 * cn.reads - cn.received
            /\ Parsed(cn) => cn.request = parse_request(cn.all_stream_data)
            /\ (Parsed(cn) /\ cn.received < 8192 * cn.reads) =>
                   /\ cn.request.body.some
                   /\ NulBytes(cn.request.body.val) = 8192 * cn.reads - cn.received

\* A request of 36 bytes without a body arrived in one read and was parsed:
\* the buffer holds 8192 bytes and the body of the Request is 8156 zero bytes.
C28_Witness ==
    \E c \in Conns :
        LET cn == conns[c]
        IN  /\ Parsed(cn)
            /\ cn.reads = 1
            /\ cn.received = 36
            /\ Bytes(cn.all_stream_data) = 8192
            /\ cn.request.body = Some(<<Nul(8156)>>)

\* C29: the reader loop of a connection ends within 129 reads: no connection
\* has read more than 129 times, none is still in the loop after its 129th
\* read, and a task that has left the loop left it by a parsed request, by a
\* read of zero bytes or by a buffer of more than 1 MiB.
C29_ReaderLoopEndsWithin129Reads ==
    \A c \in Conns :
        LET cn == conns[c]
        IN  /\ cn.reads <= 129
            /\ cn.pc = "read" => cn.reads <= 128
            /\ cn.pc \notin {"idle", "read"} =>
                   \/ Parsed(cn)
                   \/ cn.last_read = 0
                   \/ Bytes(cn.all_stream_data) > 1048576

\* C30: the adjusted length of every stored pattern, its length minus 5 per
\* "[^/]+" and minus 3 per ".+", is not negative, and no registration has
\* failed in the comparator of the sort.
C30_AdjustedLengthNeverNegative ==
    /\ \A m \in DOMAIN handlers :
           \A i \in 1..Len(handlers[m]) :
               LET p == handlers[m][i].route.path
               IN  Len(p) - 5 * CountMatches(p, <<"[", "^", "/", "]", "+">>)
                          - 3 * CountMatches(p, <<".", "+">>) >= 0
    /\ phase # "panicked"

\* Two stored routes tie on the three keys of the comparator: the number of
\* "/" of the compiled pattern, its adjusted length and the number of
\* parameters.
KeysTie(x, y) ==
    LET adjusted(e) == Len(e.route.path)
                           - 5 * CountMatches(e.route.path, <<"[", "^", "/", "]", "+">>)
                           - 3 * CountMatches(e.route.path, <<".", "+">>)
    IN  /\ CountMatches(x.route.path, <<"/">>) = CountMatches(y.route.path, <<"/">>)
        /\ adjusted(x) = adjusted(y)
        /\ Len(x.route.params) = Len(y.route.params)

\* In every bucket the routes that tie on the three keys are stored in the
\* order of their registration.
TiesInRegistrationOrder ==
    \A m \in DOMAIN handlers :
        \A i, j \in 1..Len(handlers[m]) :
            (i < j /\ KeysTie(handlers[m][i], handlers[m][j])) =>
                handlers[m][i].handler.id < handlers[m][j].handler.id

\* C31 as stated: routes that tie on the three keys keep their registration
\* order, and when a pattern is registered twice on a method the handler
\* registered second is not invoked for a request.
C31_FirstRegisteredOnlySelected ==
    /\ TiesInRegistrationOrder
    /\ \A c \in Conns :
           LET cn == conns[c]
               b  == ReqBucket(cn)
           IN  \A i, j \in 1..Len(b) :
                   (b[i].pattern = b[j].pattern
                        /\ b[i].handler.id < b[j].handler.id) =>
                       CallsOf(cn, b[j].handler.id) = {}

\* C31 as amended: routes that tie on the three keys keep their registration
\* order, and when a pattern is registered twice on a method the handler
\* registered first is invoked first: the one registered second is invoked
\* only after the first was invoked and returned without setting the flag.
C31_FirstRegisteredInvokedFirst ==
    /\ TiesInRegistrationOrder
    /\ \A c \in Conns :
           LET cn == conns[c]
               b  == ReqBucket(cn)
           IN  \A i, j \in 1..Len(b) :
                   (b[i].pattern = b[j].pattern
                        /\ b[i].handler.id < b[j].handler.id) =>
                       \A k \in CallsOf(cn, b[j].handler.id) :
                           \E k1 \in CallsOf(cn, b[i].handler.id) :
                               k1 < k /\ ~cn.invoked[k1].flag

\* "/**" was registered twice on GET; a request that matches it was answered
\* by the handler registered first, and the one registered second was not
\* invoked.
C31_Witness ==
    \E c \in Conns :
        LET cn == conns[c]
            b  == ReqBucket(cn)
        IN  /\ cn.pc = "done"
            /\ Len(b) = 2
            /\ b[1].pattern = CatchAll
            /\ b[2].pattern = CatchAll
            /\ b[1].handler.id < b[2].handler.id
            /\ \E k \in CallsOf(cn, b[1].handler.id) : cn.invoked[k].flag
            /\ CallsOf(cn, b[2].handler.id) = {}
            /\ Len(cn.written) = 1

=============================================================================
